---- MODULE Spec2Model ----
(***************************************************************************)
(* Model of the ComfyUI Go SDK's event-stream protocol: the WebSocket      *)
(* reader (websocket.go readLoop), the three blocking wait operations      *)
(* (Client.WaitForCompletion, WebSocketClient.WaitForPromptCompletion and  *)
(* the progress example's MonitorProgress) and the example's               *)
(* ProgressTracker driven by handleProgressMessage.                        *)
(***************************************************************************)
EXTENDS Integers, Sequences, FiniteSets, Bags, TLC

(***************************************************************************)
(* Bounds of the model.                                                    *)
(***************************************************************************)
\* frames the server sends on one connection
MaxFrames == 2
\* capacity of the messages channel in the model (100 in ConnectWebSocket)
MsgCap == 1
\* capacity of the errors channel in the model (10 in ConnectWebSocket)
ErrCap == 1
\* largest step counter carried by a progress event
MaxStep == 2
\* executed events counted by a tracker
MaxNodes == 2
\* ticks of the wall clock
MaxClock == 1
\* nodes a WorkflowBuilder adds, and so the node ids "1" .. MaxBuilt in use
MaxBuilt == 2

(***************************************************************************)
(* JSON values of a message's Data map (map[string]interface{}).  A value  *)
(* carries its dynamic type, so that a Go type assertion v.(string) is a   *)
(* test of the tag.  A key that is absent is not in the map's DOMAIN.      *)
(***************************************************************************)
Str(s) == <<"string", s>>
Num(n) == <<"number", n>>
Null == <<"null", 0>>

\* data[k].(string): the value and ok
IsString(data, k) == k \in DOMAIN data /\ data[k][1] = "string"
\* data[k].(float64)
IsNumber(data, k) == k \in DOMAIN data /\ data[k][1] = "number"

\* data[k].(map[string]interface{}) and data[k].([]interface{})
IsMap(data, k) == k \in DOMAIN data /\ data[k][1] = "object"
IsSlice(data, k) == k \in DOMAIN data /\ data[k][1] = "array"

\* the nil map of ExecutedData.Output
NilOutput == <<"nil">>

\* the elements of a []interface{} that are strings, in order
RECURSIVE TracebackLines(_)
TracebackLines(tb) ==
    IF tb = <<>> THEN <<>>
    ELSE (IF Head(tb)[1] = "string" THEN <<Head(tb)[2]>> ELSE <<>>)
             \o TracebackLines(Tail(tb))

MessageTypeStatus == "status"
MessageTypeExecuting == "executing"
MessageTypeProgress == "progress"
MessageTypeExecuted == "executed"
MessageTypeError == "execution_error"
MessageTypeCached == "execution_cached"

\* the nil pointer of ExecutingData.Node
NilNode == <<"nil">>
\* a non-nil *string
PtrTo(s) == <<"ptr", s>>

Jobs == {"j1", "j2"}

(***************************************************************************)
(* Typed accessors of WebSocketMessage.  Each yields [err, data].          *)
(***************************************************************************)
GetExecutingData(msg) ==
    IF msg.Type # MessageTypeExecuting
    THEN [err |-> "not an executing message"]
    ELSE [err |-> "nil",
          PromptID |-> IF IsString(msg.Data, "prompt_id") THEN msg.Data["prompt_id"][2] ELSE "",
          Node |-> IF IsString(msg.Data, "node") THEN PtrTo(msg.Data["node"][2]) ELSE NilNode]

\* GetProgressData that takes "value" and "max" as required
GetProgressDataRequiringBoth(msg) ==
    IF msg.Type # MessageTypeProgress
           \/ ~IsNumber(msg.Data, "value") \/ ~IsNumber(msg.Data, "max")
    THEN [err |-> "not a progress message"]
    ELSE [err |-> "nil", Value |-> msg.Data["value"][2], Max |-> msg.Data["max"][2]]

GetProgressData(msg) ==
    IF msg.Type # MessageTypeProgress
    THEN [err |-> "not a progress message"]
    ELSE [err |-> "nil",
          Value |-> IF IsNumber(msg.Data, "value") THEN msg.Data["value"][2] ELSE 0,
          Max |-> IF IsNumber(msg.Data, "max") THEN msg.Data["max"][2] ELSE 0]

GetExecutedData(msg) ==
    IF msg.Type # MessageTypeExecuted
    THEN [err |-> "not an executed message"]
    ELSE [err |-> "nil",
          Node |-> IF IsString(msg.Data, "node") THEN msg.Data["node"][2] ELSE "",
          PromptID |-> IF IsString(msg.Data, "prompt_id") THEN msg.Data["prompt_id"][2] ELSE "",
          Output |-> IF IsMap(msg.Data, "output") THEN msg.Data["output"][2] ELSE NilOutput]

GetErrorData(msg) ==
    IF msg.Type # MessageTypeError
    THEN [err |-> "not an error message"]
    ELSE [err |-> "nil",
          PromptID |-> IF IsString(msg.Data, "prompt_id") THEN msg.Data["prompt_id"][2] ELSE "",
          NodeID |-> IF IsString(msg.Data, "node_id") THEN msg.Data["node_id"][2] ELSE "",
          NodeType |-> IF IsString(msg.Data, "node_type") THEN msg.Data["node_type"][2] ELSE "",
          Traceback |-> IF IsSlice(msg.Data, "traceback")
                        THEN TracebackLines(msg.Data["traceback"][2]) ELSE <<>>,
          ExceptionType |-> IF IsString(msg.Data, "exception_type")
                            THEN msg.Data["exception_type"][2] ELSE "",
          ExceptionMessage |-> IF IsString(msg.Data, "exception_message")
                               THEN msg.Data["exception_message"][2] ELSE ""]

(***************************************************************************)
(* ProgressTracker of the progress example.                                *)
(***************************************************************************)
NewProgressTracker(promptID, t) ==
    [PromptID |-> promptID, StartTime |-> t, CurrentNode |-> "", TotalNodes |-> 0,
     CompletedNodes |-> 0, CurrentStep |-> 0, TotalSteps |-> 0, LastUpdate |-> t,
     IsCompleted |-> FALSE, HasError |-> FALSE, ErrorMessage |-> ""]

Update(pt, currentStep, totalSteps, node, t) ==
    [pt EXCEPT !.CurrentStep = currentStep, !.TotalSteps = totalSteps,
               !.CurrentNode = node, !.LastUpdate = t]

\* CompleteNode that also starts the step counters afresh
CompleteNodeResettingSteps(pt) ==
    [pt EXCEPT !.CompletedNodes = @ + 1, !.CurrentStep = 0, !.TotalSteps = 0]

CompleteNode(pt) == [pt EXCEPT !.CompletedNodes = @ + 1]

SetError(pt, m) == [pt EXCEPT !.HasError = TRUE, !.ErrorMessage = m]

\* Complete that also counts the node as completed
CompleteCounting(pt) ==
    [pt EXCEPT !.IsCompleted = TRUE,
               !.CompletedNodes = IF @ < MaxNodes THEN @ + 1 ELSE @]

\* Complete that also moves the step counter to its end
CompleteAtFullSteps(pt) == [pt EXCEPT !.IsCompleted = TRUE, !.CurrentStep = pt.TotalSteps]

Complete(pt) == [pt EXCEPT !.IsCompleted = TRUE]

\* fmt.Sprintf("%s: %s", data.ExceptionType, data.ExceptionMessage)
FormatError(excType, excMsg) == <<excType, ": ", excMsg>>

\* handleProgressMessage(msg, tracker, promptID) at time t: the tracker after the call
handleProgressMessage(msg, pt, promptID, t) ==
    CASE msg.Type = MessageTypeProgress ->
            LET d == GetProgressData(msg)
            IN  IF d.err = "nil" THEN Update(pt, d.Value, d.Max, pt.CurrentNode, t) ELSE pt
      [] msg.Type = MessageTypeExecuting ->
            LET d == GetExecutingData(msg)
            IN  IF d.err = "nil" /\ d.PromptID = promptID
                THEN IF d.Node = NilNode
                     THEN Complete(pt)
                     ELSE [pt EXCEPT !.CurrentNode = d.Node[2]]
                ELSE pt
      [] msg.Type = MessageTypeExecuted ->
            LET d == GetExecutedData(msg)
            IN  IF d.err = "nil" /\ d.PromptID = promptID THEN CompleteNode(pt) ELSE pt
      [] msg.Type = MessageTypeError ->
            LET d == GetErrorData(msg)
            IN  IF d.err = "nil" /\ d.PromptID = promptID
                THEN SetError(pt, FormatError(d.ExceptionType, d.ExceptionMessage))
                ELSE pt
      [] OTHER -> pt


(***************************************************************************)
(* Wire frames.  A frame is either undecodable (json.Unmarshal fails) or   *)
(* decodes to a WebSocketMessage [Type, Data].                             *)
(***************************************************************************)
BadFrame == [Type |-> "<undecodable>", Data |-> <<>>]

Msg(type, data) == [Type |-> type, Data |-> data]

\* executing with a node name, with "node": null, with no node key, with "node": ""
ExecutingNode(j, n) == Msg(MessageTypeExecuting, [prompt_id |-> Str(j), node |-> Str(n)])
ExecutingNull(j) == Msg(MessageTypeExecuting, [prompt_id |-> Str(j), node |-> Null])
ExecutingAbsent(j) == Msg(MessageTypeExecuting, [prompt_id |-> Str(j)])
ProgressOf(j, v, m) == Msg(MessageTypeProgress, [prompt_id |-> Str(j), value |-> Num(v), max |-> Num(m)])
ProgressBare(v, m) == Msg(MessageTypeProgress, [value |-> Num(v), max |-> Num(m)])
ExecutedOf(j, n) == Msg(MessageTypeExecuted, [prompt_id |-> Str(j), node |-> Str(n)])
ErrorOf(j) ==
    Msg(MessageTypeError, [prompt_id |-> Str(j), exception_type |-> Str("RuntimeError"),
                           exception_message |-> Str("boom")])

\* the frames the server sends on a connection
ConnFrames ==
    {ExecutingNull("j1"), ExecutingAbsent("j2"), ExecutingNode("j1", "n1"),
     ErrorOf("j1"), ErrorOf("j2"), BadFrame}

\* the job of a frame ("" when it carries none)
JobOf(msg) == IF IsString(msg.Data, "prompt_id") THEN msg.Data["prompt_id"][2] ELSE ""

\* the completion test of WaitForCompletion and WaitForPromptCompletion:
\* pid, ok := data["prompt_id"].(string); ok && pid == promptID, then
\* node, ok := data["node"].(string); !ok || node == ""
IsCompletionFor(msg, promptID) ==
    /\ msg.Type = MessageTypeExecuting
    /\ IsString(msg.Data, "prompt_id") /\ msg.Data["prompt_id"][2] = promptID
    /\ (~IsString(msg.Data, "node") \/ msg.Data["node"][2] = "")

\* the execution_error test of WaitForPromptCompletion
IsErrorFor(msg, promptID) ==
    /\ msg.Type = MessageTypeError
    /\ IsString(msg.Data, "prompt_id") /\ msg.Data["prompt_id"][2] = promptID

(***************************************************************************)
(* History responses of GET /history/{id}.                                 *)
(***************************************************************************)
NoOutputs == [n \in {} |-> [Images |-> <<>>]]
OneOutput == [n \in {"n1"} |-> [Images |-> <<"a.png">>]]
TwoOutputs == [n \in {"n1", "n2"} |-> [Images |-> IF n = "n1" THEN <<"a.png", "b.png">> ELSE <<"a.png">>]]

HistoryItems ==
    {[Outputs |-> NoOutputs, Status |-> "error"],
     [Outputs |-> OneOutput, Status |-> "success"],
     [Outputs |-> TwoOutputs, Status |-> "success"]}

\* a History: map from prompt id to HistoryItem
Histories == UNION {[S -> HistoryItems] : S \in SUBSET Jobs}

\* the orders in which a range over the map's keys may visit them
Orders(S) == {o \in [1..Cardinality(S) -> S] : \A i, k \in DOMAIN o : i # k => o[i] # o[k]}

\* a collection that stops after the first node output
CollectImagesFirstOnly(outputs, order) ==
    IF order = <<>> THEN <<>> ELSE outputs[Head(order)].Images

RECURSIVE CollectImages(_, _)
\* for _, output := range item.Outputs { images = append(images, output.Images...) }
CollectImages(outputs, order) ==
    IF order = <<>> THEN <<>>
    ELSE outputs[Head(order)].Images \o CollectImages(outputs, Tail(order))

(***************************************************************************)
(* State.                                                                  *)
(***************************************************************************)
VARIABLES
    mode,        \* which wait operation the program uses on the connection
    rpc,         \* position of the readLoop goroutine
    inHand,      \* the decoded message readLoop is about to send
    messages,    \* ws.messages: buffered channel
    errors,      \* ws.errors: buffered channel
    msgClosed,   \* ws.messages has been closed
    errClosed,   \* ws.errors has been closed
    done,        \* ws.done has been closed
    once,        \* ws.once has fired
    connOpen,    \* ws.conn has not been closed locally
    nread,       \* frames read so far
    wpc,         \* position of each wait call
    werr,        \* the error each wait call returned
    ctx,         \* the state of each caller's context
    result,      \* the ExecutionResult a WaitForCompletion returned
    tracker,     \* the ProgressTracker (of MonitorProgress, or standing alone)
    now,         \* wall clock
    decoded,     \* history: frames decoded while the connection was not closed
    taken,       \* history: messages received from ws.messages, in order
    badRead,     \* history: frames that failed to decode
    reported,    \* history: unmarshal errors sent on ws.errors
    readFailed,  \* history: ReadMessage returned an error
    lostWith,    \* history: the calls blocked when the connection was lost
    closers,     \* history: who called Close
    retVia,      \* history: the select case through which each call returned
    firstTerminal, \* history: first terminal event of its job each call received
    termDelivered, \* history: jobs whose terminal event left the channel while their call waited
    fetched,     \* history: the history response WaitForCompletion used
    lastMsg,     \* history: the last message handed to handleProgressMessage
    prev,        \* history: the tracker before that message was handled
    lastOp,      \* the last library call made: its name, arguments and return values
    wf,          \* a Workflow: node id -> Node, the Inputs field a reference into heap
    cl,          \* the Workflow that Clone returned
    heap,        \* the map objects the Inputs fields refer to
    nextID,      \* WorkflowBuilder.nextID
    own,         \* history: the tracked job's events seen since its last node start
    cloned,      \* history: cl is a workflow that Clone returned
    emitted,     \* the server: which jobs' completion events it has emitted, and to whom
    closing,     \* the Close calls made step by step: each caller's position and return
                 \* value, who ran the Once function, how often done and conn were closed
    retry        \* the activation of retryWithBackoff: its locals, and the calls and waits made

libVars == <<lastOp, wf, cl, heap, nextID, own, cloned, emitted, closing, retry>>

connVars == <<rpc, inHand, messages, errors, msgClosed, errClosed, done, once, connOpen, nread>>
waitVars == <<wpc, werr, ctx, result>>
histVars == <<decoded, taken, badRead, reported, readFailed, lostWith, closers, retVia,
              firstTerminal, termDelivered, fetched, lastMsg, prev, libVars>>
vars == <<mode, connVars, waitVars, tracker, now, histVars>>

Waiters == {"w1", "w2"}
\* the prompt id each call waits for
JobOfWaiter(w) == IF w = "w1" THEN "j1" ELSE "j2"

ModeWFC == "Client.WaitForCompletion"
ModeWPC == "WebSocketClient.WaitForPromptCompletion"
ModeMP == "MonitorProgress"

\* the calls that can run in a mode: the ones that dial their own
\* connection are modelled with one call
ActiveWaiters == IF mode = ModeWPC THEN Waiters ELSE {"w1"}

None == "<none>"
\* no message yet
NoMsg == [Type |-> "<none>", Data |-> <<>>]


CtxErr(c) == IF c = "canceled" THEN "context canceled" ELSE "context deadline exceeded"

(***************************************************************************)
(* Initial states.  A WebSocketClient handed to WaitForPromptCompletion    *)
(* exists already (ConnectWebSocket has returned and readLoop runs); the   *)
(* other two operations dial their own connection when they are called.    *)
(***************************************************************************)
InitConn(started) ==
    /\ rpc = IF started THEN "top" ELSE "unborn"
    /\ inHand = None
    /\ messages = <<>>
    /\ errors = <<>>
    /\ msgClosed = FALSE
    /\ errClosed = FALSE
    /\ done = FALSE
    /\ once = FALSE
    /\ connOpen = started
    /\ nread = 0

\* a Go map with no keys
EmptyMap == [k \in {} |-> 0]
\* no library call yet
NoOp == [op |-> "<none>"]
\* no event of the tracked job seen yet
NoOwn == [stage |-> "none", Value |-> 0, Max |-> 0, Node |-> ""]

\* the callers of Close
Closers == {"c1", "c2", "c3"}
\* no Close call made yet
NoClosing ==
    [pc |-> [c \in Closers |-> "idle"], ret |-> [c \in Closers |-> "<none>"],
     first |-> "<none>", doneCloses |-> 0, connCloses |-> 0, panicked |-> FALSE]
\* retryWithBackoff not called
NoRetry == [pc |-> "<none>"]

\* the library state before any call: no workflow built, a fresh builder
InitLib ==
    /\ lastOp = NoOp
    /\ wf = EmptyMap
    /\ cl = EmptyMap
    /\ heap = <<>>
    /\ nextID = 1
    /\ own = NoOwn
    /\ cloned = FALSE
    /\ emitted = [j \in Jobs |-> "no"]
    /\ closing = NoClosing
    /\ retry = NoRetry

InitHist ==
    /\ InitLib
    /\ decoded = <<>>
    /\ taken = <<>>
    /\ badRead = 0
    /\ reported = 0
    /\ readFailed = FALSE
    /\ lostWith = {}
    /\ closers = {}
    /\ retVia = [w \in Waiters |-> None]
    /\ firstTerminal = [w \in Waiters |-> None]
    /\ termDelivered = {}
    /\ fetched = None
    /\ lastMsg = NoMsg
    /\ prev = None

Init ==
    /\ mode \in {ModeWFC, ModeWPC, ModeMP}
    /\ InitConn(mode = ModeWPC)
    /\ wpc = [w \in Waiters |-> "idle"]
    /\ werr = [w \in Waiters |-> None]
    /\ ctx = [w \in Waiters |-> "active"]
    /\ result = None
    /\ tracker = None
    /\ now = 0
    /\ InitHist

(***************************************************************************)
(* WebSocketClient.Close: once.Do(close(done); conn.Close()).              *)
(***************************************************************************)
Close(who) ==
    /\ closers' = closers \cup {who}
    /\ IF once
       THEN UNCHANGED <<once, done, connOpen>>
       ELSE once' = TRUE /\ done' = TRUE /\ connOpen' = FALSE

\* the application closes a WebSocketClient it shares between calls
UserClose ==
    /\ mode = ModeWPC
    /\ "user" \notin closers
    /\ Close("user")
    /\ UNCHANGED <<mode, rpc, inHand, messages, errors, msgClosed, errClosed, nread,
                   waitVars, tracker, now, decoded, taken, badRead, reported, readFailed,
                   lostWith, retVia, firstTerminal, termDelivered, fetched,
                   lastMsg, prev, libVars>>

(***************************************************************************)
(* readLoop.                                                               *)
(***************************************************************************)
readerFrame == <<mode, msgClosed, errClosed, done, once, connOpen, waitVars, tracker, now,
                 closers, retVia, firstTerminal, termDelivered, fetched, lastMsg, prev, libVars>>

\* select { case <-ws.done: return; default: ... }
ReaderSeesDone ==
    /\ rpc = "top" /\ done
    /\ rpc' = "deferErrors"
    /\ UNCHANGED <<inHand, messages, errors, nread, readerFrame, decoded, taken, badRead,
                   reported, readFailed, lostWith>>

ReaderEntersRead ==
    /\ rpc = "top" /\ ~done
    /\ rpc' = "read"
    /\ UNCHANGED <<inHand, messages, errors, nread, readerFrame, decoded, taken, badRead,
                   reported, readFailed, lostWith>>

\* ws.conn.ReadMessage() returns a frame; json.Unmarshal decodes it or fails
ReadFrame(f) ==
    /\ rpc = "read" /\ connOpen /\ nread < MaxFrames
    /\ nread' = nread + 1
    /\ IF f = BadFrame
       THEN /\ rpc' = "sendUnmarshalError"
            /\ inHand' = None
            /\ badRead' = badRead + 1
            /\ UNCHANGED decoded
       ELSE /\ rpc' = "sendMessage"
            /\ inHand' = f
            /\ decoded' = Append(decoded, f)
            /\ UNCHANGED badRead
    /\ UNCHANGED <<messages, errors, readerFrame, taken, reported, readFailed, lostWith>>

\* ws.conn.ReadMessage() returns an error: the connection was lost, or
\* Close closed it under the reader
ReadFails ==
    /\ rpc = "read"
    /\ rpc' = "sendReadError"
    /\ readFailed' = TRUE
    /\ lostWith' = IF connOpen THEN {w \in Waiters : wpc[w] = "waiting"} ELSE lostWith
    /\ UNCHANGED <<inHand, messages, errors, nread, readerFrame, decoded, taken, badRead,
                   reported>>

\* select { case ws.errors <- "read error": ; case <-ws.done: }; return
SendReadError ==
    /\ rpc = "sendReadError"
    /\ \/ Len(errors) < ErrCap /\ errors' = Append(errors, "read error")
       \/ done /\ UNCHANGED errors
    /\ rpc' = "deferErrors"
    /\ UNCHANGED <<inHand, messages, nread, readerFrame, decoded, taken, badRead, reported,
                   readFailed, lostWith>>

\* a reader that drops the error when ws.errors is full
SendUnmarshalErrorDropping ==
    /\ rpc = "sendUnmarshalError"
    /\ \/ Len(errors) < ErrCap /\ errors' = Append(errors, "unmarshal error")
          /\ reported' = reported + 1
       \/ Len(errors) >= ErrCap /\ UNCHANGED <<errors, reported>>
       \/ done /\ UNCHANGED <<errors, reported>>
    /\ rpc' = "top"
    /\ UNCHANGED <<inHand, messages, nread, readerFrame, decoded, taken, badRead,
                   readFailed, lostWith>>

\* a reader whose send of the unmarshal error does not watch ws.done
SendUnmarshalErrorBlocking ==
    /\ rpc = "sendUnmarshalError"
    /\ Len(errors) < ErrCap /\ errors' = Append(errors, "unmarshal error")
    /\ reported' = reported + 1
    /\ rpc' = "top"
    /\ UNCHANGED <<inHand, messages, nread, readerFrame, decoded, taken, badRead,
                   readFailed, lostWith>>

\* select { case ws.errors <- "unmarshal error": ; case <-ws.done: }; continue
SendUnmarshalError ==
    /\ rpc = "sendUnmarshalError"
    /\ \/ Len(errors) < ErrCap /\ errors' = Append(errors, "unmarshal error")
          /\ reported' = reported + 1
       \/ done /\ UNCHANGED <<errors, reported>>
    /\ rpc' = "top"
    /\ UNCHANGED <<inHand, messages, nread, readerFrame, decoded, taken, badRead,
                   readFailed, lostWith>>

\* a reader that drops the message when ws.messages is full
SendMessageDropping ==
    /\ rpc = "sendMessage"
    /\ \/ Len(messages) < MsgCap /\ messages' = Append(messages, inHand) /\ rpc' = "top"
       \/ Len(messages) >= MsgCap /\ UNCHANGED messages /\ rpc' = "top"
       \/ done /\ UNCHANGED messages /\ rpc' = "deferErrors"
    /\ inHand' = None
    /\ UNCHANGED <<errors, nread, readerFrame, decoded, taken, badRead, reported,
                   readFailed, lostWith>>

\* select { case ws.messages <- msg: ; case <-ws.done: return }
SendMessage ==
    /\ rpc = "sendMessage"
    /\ \/ Len(messages) < MsgCap /\ messages' = Append(messages, inHand) /\ rpc' = "top"
       \/ done /\ UNCHANGED messages /\ rpc' = "deferErrors"
    /\ inHand' = None
    /\ UNCHANGED <<errors, nread, readerFrame, decoded, taken, badRead, reported,
                   readFailed, lostWith>>

\* defer close(ws.errors) runs first, defer close(ws.messages) last
DeferCloseErrors ==
    /\ rpc = "deferErrors"
    /\ errClosed' = TRUE
    /\ rpc' = "deferMessages"
    /\ UNCHANGED <<mode, inHand, messages, errors, msgClosed, done, once, connOpen, nread,
                   waitVars, tracker, now, histVars>>

DeferCloseMessages ==
    /\ rpc = "deferMessages"
    /\ msgClosed' = TRUE
    /\ rpc' = "exited"
    /\ UNCHANGED <<mode, inHand, messages, errors, errClosed, done, once, connOpen, nread,
                   waitVars, tracker, now, histVars>>


(***************************************************************************)
(* The callers' contexts.                                                  *)
(***************************************************************************)
\* the caller cancels the context, or its deadline passes
CtxEnds(w, how) ==
    /\ w \in ActiveWaiters
    /\ ctx[w] = "active" /\ wpc[w] # "returned"
    /\ ctx' = [ctx EXCEPT ![w] = how]
    /\ UNCHANGED <<mode, connVars, wpc, werr, result, tracker, now, histVars>>

(***************************************************************************)
(* Pieces shared by the three wait loops.                                  *)
(***************************************************************************)
waiterFrame == <<mode, rpc, inHand, msgClosed, errClosed, nread, ctx, now, decoded, badRead,
                 reported, readFailed, lostWith, lastMsg, prev, libVars>>

IsTerminalFor(msg, j) == IsCompletionFor(msg, j) \/ IsErrorFor(msg, j)

\* msg := <-ws.messages, received by call w
Take(w, msg) ==
    /\ messages' = Tail(messages)
    /\ taken' = Append(taken, msg)
    /\ firstTerminal' =
          IF firstTerminal[w] = None /\ IsTerminalFor(msg, JobOfWaiter(w))
          THEN [firstTerminal EXCEPT ![w] = msg.Type]
          ELSE firstTerminal
    /\ termDelivered' =
          termDelivered \cup
             {j \in Jobs : IsTerminalFor(msg, j)
                           /\ \E v \in Waiters : JobOfWaiter(v) = j /\ wpc[v] = "waiting"}

NoTake == UNCHANGED <<messages, taken, firstTerminal, termDelivered>>

Returns(w, e, via) ==
    /\ wpc' = [wpc EXCEPT ![w] = "returned"]
    /\ werr' = [werr EXCEPT ![w] = e]
    /\ retVia' = [retVia EXCEPT ![w] = via]

Continues == UNCHANGED <<wpc, werr, retVia>>

NoClose == UNCHANGED <<closers, once, done, connOpen>>

(***************************************************************************)
(* ConnectWebSocket, as called by WaitForCompletion and MonitorProgress.   *)
(***************************************************************************)
\* dialer.DialContext succeeds: the client is built and go ws.readLoop() starts
Dial(w) ==
    /\ mode \in {ModeWFC, ModeMP} /\ w \in ActiveWaiters
    /\ wpc[w] = "idle"
    /\ wpc' = [wpc EXCEPT ![w] = "waiting"]
    /\ rpc' = "top"
    /\ connOpen' = TRUE
    /\ tracker' = IF mode = ModeMP THEN NewProgressTracker(JobOfWaiter(w), now) ELSE tracker
    /\ UNCHANGED <<mode, inHand, messages, errors, msgClosed, errClosed, done, once, nread,
                   werr, ctx, result, now, histVars>>

\* dialer.DialContext fails
DialFails(w) ==
    /\ mode \in {ModeWFC, ModeMP} /\ w \in ActiveWaiters
    /\ wpc[w] = "idle"
    /\ Returns(w, "failed to connect websocket", "dial")
    /\ tracker' = IF mode = ModeMP THEN NewProgressTracker(JobOfWaiter(w), now) ELSE tracker
    /\ UNCHANGED <<mode, connVars, ctx, result, now, decoded, taken, badRead, reported,
                   readFailed, lostWith, closers, firstTerminal, termDelivered, fetched,
                   lastMsg, prev, libVars>>

(***************************************************************************)
(* Client.WaitForCompletion: one iteration of its select loop.             *)
(***************************************************************************)
\* case <-ctx.Done(): return nil, ctx.Err()   (defer ws.Close())
WFC_CtxDone(w) ==
    /\ ctx[w] # "active"
    /\ Returns(w, CtxErr(ctx[w]), "ctx")
    /\ Close(w)
    /\ NoTake
    /\ UNCHANGED <<errors, result, tracker, fetched, waiterFrame>>

\* the ExecutionResult assembled from the history response
ResultOf(promptID, history, order) ==
    IF promptID \in DOMAIN history
    THEN [PromptID |-> promptID, Outputs |-> history[promptID].Outputs,
          Status |-> history[promptID].Status,
          Images |-> CollectImages(history[promptID].Outputs, order)]
    ELSE [PromptID |-> promptID, Outputs |-> NoOutputs, Status |-> "", Images |-> <<>>]

\* the orders in which the result's images may be collected
ImageOrders(promptID, history) ==
    IF promptID \in DOMAIN history THEN Orders(DOMAIN history[promptID].Outputs) ELSE {<<>>}

\* case msg, ok := <-ws.Messages() with ok: the completion event of the job
\* leads to GetHistory and a return, every other message to the next iteration
WFC_Message(w) ==
    /\ Len(messages) > 0
    /\ LET msg == Head(messages)
           promptID == JobOfWaiter(w)
       IN  /\ Take(w, msg)
           /\ IF IsCompletionFor(msg, promptID)
              THEN \/ \* c.GetHistory fails (always so once ctx has ended)
                      /\ Returns(w, "failed to get history", "history")
                      /\ UNCHANGED <<result, fetched>>
                      /\ Close(w)
                   \/ /\ ctx[w] = "active"
                      /\ \E history \in Histories :
                           \E order \in ImageOrders(promptID, history) :
                              /\ result' = ResultOf(promptID, history, order)
                              /\ fetched' = [promptID |-> promptID, history |-> history]
                      /\ Returns(w, "nil", "completion")
                      /\ Close(w)
              ELSE Continues /\ NoClose /\ UNCHANGED <<result, fetched>>
    /\ UNCHANGED <<errors, tracker, waiterFrame>>

\* case msg, ok := <-ws.Messages() with !ok
WFC_Closed(w) ==
    /\ Len(messages) = 0 /\ msgClosed
    /\ Returns(w, "websocket closed unexpectedly", "messages closed")
    /\ Close(w)
    /\ NoTake
    /\ UNCHANGED <<errors, result, tracker, fetched, waiterFrame>>

WaitForCompletion(w) ==
    /\ mode = ModeWFC /\ w \in ActiveWaiters /\ wpc[w] = "waiting"
    /\ (WFC_CtxDone(w) \/ WFC_Message(w) \/ WFC_Closed(w))

(***************************************************************************)
(* WebSocketClient.WaitForPromptCompletion.                                *)
(***************************************************************************)
CallWaitForPromptCompletion(w) ==
    /\ mode = ModeWPC /\ wpc[w] = "idle"
    /\ wpc' = [wpc EXCEPT ![w] = "waiting"]
    /\ UNCHANGED <<mode, connVars, werr, ctx, result, tracker, now, histVars>>

\* a wait that closes the shared connection when its context ends
WPC_CtxDoneClosing(w) ==
    /\ ctx[w] # "active"
    /\ Returns(w, CtxErr(ctx[w]), "ctx")
    /\ Close(w)
    /\ NoTake
    /\ UNCHANGED <<errors, result, tracker, fetched, waiterFrame>>

\* case <-ctx.Done(): return ctx.Err()
WPC_CtxDone(w) ==
    /\ ctx[w] # "active"
    /\ Returns(w, CtxErr(ctx[w]), "ctx")
    /\ NoClose
    /\ NoTake
    /\ UNCHANGED <<errors, result, tracker, fetched, waiterFrame>>

\* case err := <-ws.errors: return err.  A receive from the closed, drained
\* channel yields the zero value, a nil error.
WPC_Error(w) ==
    /\ Len(errors) > 0 \/ errClosed
    /\ IF Len(errors) > 0
       THEN Returns(w, Head(errors), "errors") /\ errors' = Tail(errors)
       ELSE Returns(w, "nil", "errors closed") /\ UNCHANGED errors
    /\ NoClose
    /\ NoTake
    /\ UNCHANGED <<result, tracker, fetched, waiterFrame>>

\* case msg, ok := <-ws.messages with ok
WPC_Message(w) ==
    /\ Len(messages) > 0
    /\ LET msg == Head(messages)
           promptID == JobOfWaiter(w)
       IN  /\ Take(w, msg)
           /\ IF IsCompletionFor(msg, promptID)
              THEN Returns(w, "nil", "completion")
              ELSE IF IsErrorFor(msg, promptID)
                   THEN Returns(w, "execution error", "execution_error")
                   ELSE Continues
    /\ NoClose
    /\ UNCHANGED <<errors, result, tracker, fetched, waiterFrame>>

\* case msg, ok := <-ws.messages with !ok
WPC_Closed(w) ==
    /\ Len(messages) = 0 /\ msgClosed
    /\ Returns(w, "websocket closed", "messages closed")
    /\ NoClose
    /\ NoTake
    /\ UNCHANGED <<errors, result, tracker, fetched, waiterFrame>>

WaitForPromptCompletion(w) ==
    /\ mode = ModeWPC /\ wpc[w] = "waiting"
    /\ (WPC_CtxDone(w) \/ WPC_Error(w) \/ WPC_Message(w) \/ WPC_Closed(w))

(***************************************************************************)
(* MonitorProgress of the progress example.                                *)
(***************************************************************************)
\* case <-ctx.Done(): return ctx.Err()
MP_CtxDone(w) ==
    /\ ctx[w] # "active"
    /\ Returns(w, CtxErr(ctx[w]), "ctx")
    /\ Close(w)
    /\ NoTake
    /\ UNCHANGED <<errors, result, tracker, fetched, waiterFrame>>

\* case msg, ok := <-ws.Messages() with ok
MP_Message(w) ==
    /\ Len(messages) > 0
    /\ LET msg == Head(messages)
           after == handleProgressMessage(msg, tracker, JobOfWaiter(w), now)
       IN  /\ Take(w, msg)
           /\ tracker' = after
           /\ IF after.IsCompleted \/ after.HasError
              THEN Returns(w, "nil", "tracker terminal") /\ Close(w)
              ELSE Continues /\ NoClose
    /\ UNCHANGED <<errors, result, fetched, waiterFrame>>

\* case msg, ok := <-ws.Messages() with !ok
MP_Closed(w) ==
    /\ Len(messages) = 0 /\ msgClosed
    /\ Returns(w, "WebSocket closed", "messages closed")
    /\ Close(w)
    /\ NoTake
    /\ UNCHANGED <<errors, result, tracker, fetched, waiterFrame>>

\* case err := <-ws.Errors(): tracker.SetError(err.Error()); return err.
\* On the closed, drained channel err is nil and err.Error() panics.
MP_Error(w) ==
    /\ Len(errors) > 0 \/ errClosed
    /\ IF Len(errors) > 0
       THEN /\ Returns(w, Head(errors), "errors")
            /\ errors' = Tail(errors)
            /\ tracker' = SetError(tracker, Head(errors))
       ELSE /\ Returns(w, "panic: nil pointer dereference", "errors closed")
            /\ UNCHANGED <<errors, tracker>>
    /\ Close(w)
    /\ NoTake
    /\ UNCHANGED <<result, fetched, waiterFrame>>

MonitorProgress(w) ==
    /\ mode = ModeMP /\ w \in ActiveWaiters /\ wpc[w] = "waiting"
    /\ (MP_CtxDone(w) \/ MP_Message(w) \/ MP_Closed(w) \/ MP_Error(w))

(***************************************************************************)
(* The specification of the connection and its wait operations.            *)
(***************************************************************************)
Next ==
    \/ ReaderSeesDone
    \/ ReaderEntersRead
    \/ \E f \in ConnFrames : ReadFrame(f)
    \/ ReadFails
    \/ SendReadError
    \/ SendUnmarshalError
    \/ SendMessage
    \/ DeferCloseErrors
    \/ DeferCloseMessages
    \/ UserClose
    \/ \E w \in Waiters, how \in {"canceled", "deadline"} : CtxEnds(w, how)
    \/ \E w \in Waiters : Dial(w)
    \/ \E w \in Waiters : DialFails(w)
    \/ \E w \in Waiters : WaitForCompletion(w)
    \/ \E w \in Waiters : CallWaitForPromptCompletion(w)
    \/ \E w \in Waiters : WaitForPromptCompletion(w)
    \/ \E w \in Waiters : MonitorProgress(w)

Spec == Init /\ [][Next]_vars

TypeOK ==
    /\ mode \in {ModeWFC, ModeWPC, ModeMP}
    /\ Len(messages) <= MsgCap
    /\ Len(errors) <= ErrCap
    /\ nread <= MaxFrames


(***************************************************************************)
(* The ProgressTracker on its own: handleProgressMessage is handed any     *)
(* sequence of messages for a tracker of job "j1", at any times.           *)
(***************************************************************************)
ModeTracker == "ProgressTracker"
Tracked == "j1"
Nodes == {"n1", "n2"}
Steps == 0..MaxStep

TrackerMsgs ==
    {ExecutingNode(j, n) : j \in Jobs, n \in Nodes \cup {""}}
    \cup {ExecutingNull(j) : j \in Jobs}
    \cup {ExecutingAbsent(j) : j \in Jobs}
    \cup {ProgressOf(j, v, m) : j \in Jobs, v \in Steps, m \in Steps}
    \cup {ProgressBare(v, m) : v \in Steps, m \in Steps}
    \cup {ProgressBare(10, 20)}
    \cup {ExecutedOf(j, "n1") : j \in Jobs}
    \cup {ErrorOf(j) : j \in Jobs}
    \cup {Msg(MessageTypeStatus, <<>>)}

InitTracker ==
    /\ mode = ModeTracker
    /\ InitConn(FALSE)
    /\ wpc = [w \in Waiters |-> "idle"]
    /\ werr = [w \in Waiters |-> None]
    /\ ctx = [w \in Waiters |-> "active"]
    /\ result = None
    /\ now = 0
    /\ tracker = NewProgressTracker(Tracked, now)
    /\ InitHist

(***************************************************************************)
(* The percentage a tracker reports.  The float64 quotient is kept as the  *)
(* exact fraction num/den.                                                 *)
(***************************************************************************)
\* ProgressTracker.GetProgressPercentage
GetProgressPercentage(pt) ==
    IF pt.TotalSteps = 0 THEN [num |-> 0, den |-> 1]
    ELSE [num |-> pt.CurrentStep * 100, den |-> pt.TotalSteps]

\* a fraction is greater than 0
Positive(f) == f.num * f.den > 0

\* PrintProgress that computes the ETA for every tracker still running
PrintProgressUnguarded(pt, t) ==
    IF pt.HasError THEN [op |-> "PrintProgress", line |-> "error", eta |-> FALSE]
    ELSE IF pt.IsCompleted
         THEN [op |-> "PrintProgress", line |-> "completed", eta |-> FALSE]
         ELSE [op |-> "PrintProgress", line |-> "progress", eta |-> TRUE,
               elapsed |-> t - pt.StartTime,
               divisor |-> [num |-> GetProgressPercentage(pt).num, den |-> GetProgressPercentage(pt).den * 100]]

\* PrintProgress(tracker) at time t: the line it prints and, where it
\* computes the ETA, the operands of float64(elapsed) / (percentage / 100)
PrintProgress(pt, t) ==
    IF pt.HasError THEN [op |-> "PrintProgress", line |-> "error", eta |-> FALSE]
    ELSE IF pt.IsCompleted
         THEN [op |-> "PrintProgress", line |-> "completed", eta |-> FALSE]
         ELSE IF pt.CurrentStep > 0 /\ Positive(GetProgressPercentage(pt))
              THEN [op |-> "PrintProgress", line |-> "progress", eta |-> TRUE,
                    elapsed |-> t - pt.StartTime,
                    divisor |-> [num |-> GetProgressPercentage(pt).num,
                                 den |-> GetProgressPercentage(pt).den * 100]]
              ELSE [op |-> "PrintProgress", line |-> "progress", eta |-> FALSE]

\* one turn of MonitorProgress's loop on a message:
\* handleProgressMessage(msg, tracker, promptID); PrintProgress(tracker)
HandleMessage(msg) ==
    /\ mode = ModeTracker
    /\ msg.Type = MessageTypeExecuted => tracker.CompletedNodes < MaxNodes
    /\ tracker' = handleProgressMessage(msg, tracker, Tracked, now)
    /\ lastOp' = PrintProgress(tracker', now)
    /\ lastMsg' = msg
    /\ prev' = tracker
    /\ UNCHANGED <<mode, connVars, waitVars, now, decoded, taken, badRead, reported,
                   readFailed, lostWith, closers, retVia, firstTerminal, termDelivered,
                   fetched, wf, cl, heap, nextID, own, cloned, emitted, closing, retry>>

\* time passes
Tick ==
    /\ mode = ModeTracker
    /\ now < MaxClock
    /\ now' = now + 1
    /\ UNCHANGED <<mode, connVars, waitVars, tracker, histVars>>

NextTracker ==
    \/ \E msg \in TrackerMsgs : HandleMessage(msg)
    \/ Tick

SpecTracker == InitTracker /\ [][NextTracker]_vars

\* a message has been handled
Handled == lastMsg # NoMsg

\* the states of section 4.4
Completed(pt) == pt.IsCompleted
Failed(pt) == pt.HasError
Terminal(pt) == Completed(pt) \/ Failed(pt)


(***************************************************************************)
(* Properties of the wait operations and of the reader (Spec).             *)
(***************************************************************************)
ReaderStopped == rpc \in {"deferErrors", "deferMessages", "exited"}

\* C1: a call whose first terminal event of its job was an execution_error
\* has returned on receiving it, with a non-nil error.
C1_ErrorEventEndsWaitWithError ==
    \A w \in Waiters :
        firstTerminal[w] = MessageTypeError
            => wpc[w] = "returned" /\ werr[w] # "nil"

\* C4: on a shared WebSocketClient, once the terminal event of a job has
\* left the stream while the call waiting for that job was blocked, that
\* call has returned.
C4_TerminalEventReachesItsWaiter ==
    \A w \in Waiters :
        (mode = ModeWPC /\ JobOfWaiter(w) \in termDelivered) => wpc[w] = "returned"

\* the call returned because it received a terminal event of its job
ReturnedByEvent(w) == retVia[w] \in {"completion", "execution_error", "tracker terminal"}

\* C5: a call that was blocked when the connection was lost and that
\* returns for any reason other than a terminal event of its job returns
\* a non-nil error (Close not having been called by anyone).
C5_LostConnectionIsAnError ==
    \A w \in lostWith :
        (closers = {} /\ wpc[w] = "returned" /\ ~ReturnedByEvent(w)) => werr[w] # "nil"

\* C6 (as claimed): a call that returns because its context ended returns
\* the context's error and has not closed the event stream it was reading.
C6_CtxReturnNeverCloses ==
    \A w \in Waiters :
        retVia[w] = "ctx" => werr[w] = CtxErr(ctx[w]) /\ w \notin closers

\* C6 (amended): a call that returns because its context ended returns the
\* context's error; WaitForPromptCompletion has not closed the connection it
\* was given, which stays open with its reader running until the application
\* closes it or a read fails; WaitForCompletion and MonitorProgress have
\* closed the private connection they dialled, and nothing else.
C6_CtxReturnClosesOnlyPrivateStream ==
    \A w \in Waiters :
        retVia[w] = "ctx" =>
            /\ werr[w] = CtxErr(ctx[w])
            /\ mode = ModeWPC =>
                  /\ w \notin closers
                  /\ closers = {} => (~done /\ connOpen /\ (ReaderStopped => readFailed))
            /\ mode # ModeWPC => (closers = {w} /\ done /\ ~connOpen)

\* C6 witness: a WaitForPromptCompletion returned a deadline error while the
\* other call still waits on the open connection and the reader reads.
C6_Witness ==
    /\ mode = ModeWPC
    /\ retVia["w1"] = "ctx" /\ werr["w1"] = "context deadline exceeded"
    /\ wpc["w2"] = "waiting"
    /\ ~done /\ connOpen /\ rpc = "read"

IsPrefix(s, t) == Len(s) <= Len(t) /\ \A i \in 1..Len(s) : s[i] = t[i]

\* the message the reader holds while it is blocked on the send
InHandSeq == IF rpc = "sendMessage" THEN <<inHand>> ELSE <<>>

PendingUnmarshalError == IF rpc = "sendUnmarshalError" THEN 1 ELSE 0

\* C8 (as claimed): every frame that failed to decode has been sent on
\* Errors(), or is being sent.
C8_EveryDecodeFailureReported == badRead = reported + PendingUnmarshalError

\* C8 (amended): while Close has not been called, every frame that failed to
\* decode has been sent on Errors() exactly once, or is being sent; and the
\* reader stops only after Close or a failed read, never because of an
\* undecodable frame.
C8_DecodeFailureReportedWhileOpen ==
    /\ ~done => badRead = reported + PendingUnmarshalError
    /\ ReaderStopped => (done \/ readFailed)

\* C8 witness: two undecodable frames were read and reported one after the
\* other on the open connection.
C8_Witness == badRead = 2 /\ reported = 2 /\ ~done /\ rpc = "read"

\* occurrences of img in the node outputs of a history entry
CountInOutputs(outputs, img) ==
    LET idx == UNION {DOMAIN outputs[n].Images : n \in DOMAIN outputs}
    IN  Cardinality({p \in (DOMAIN outputs) \X idx :
                        /\ p[2] \in DOMAIN outputs[p[1]].Images
                        /\ outputs[p[1]].Images[p[2]] = img})

CountInSeq(seq, img) == Cardinality({i \in DOMAIN seq : seq[i] = img})

AllImages ==
    UNION {{item.Outputs[n].Images[i] : i \in DOMAIN item.Outputs[n].Images} :
              <<item, n>> \in {q \in HistoryItems \X {"n1", "n2"} : q[2] \in DOMAIN q[1].Outputs}}

\* C10: a WaitForCompletion that returned a nil error returned on the
\* completion event of its job, fetched the history of that job id, and for
\* an entry of that id its result carries the entry's Outputs and Status and,
\* as Images, each image of the entry's node outputs as often as it occurs.
C10_ResultFromHistory ==
    \A w \in Waiters :
        (mode = ModeWFC /\ wpc[w] = "returned" /\ werr[w] = "nil") =>
            /\ retVia[w] = "completion"
            /\ Len(taken) > 0 /\ IsCompletionFor(taken[Len(taken)], JobOfWaiter(w))
            /\ fetched.promptID = JobOfWaiter(w)
            /\ result.PromptID = JobOfWaiter(w)
            /\ JobOfWaiter(w) \in DOMAIN fetched.history =>
                  LET item == fetched.history[JobOfWaiter(w)]
                  IN  /\ result.Outputs = item.Outputs
                      /\ result.Status = item.Status
                      /\ \A img \in AllImages :
                            CountInSeq(result.Images, img) = CountInOutputs(item.Outputs, img)

\* C10 witness: the call returned the three images of a two-node entry.
C10_Witness ==
    /\ mode = ModeWFC /\ wpc["w1"] = "returned" /\ werr["w1"] = "nil"
    /\ "j1" \in DOMAIN fetched.history
    /\ fetched.history["j1"].Outputs = TwoOutputs
    /\ Len(result.Images) = 3

(***************************************************************************)
(* Properties of the tracker (SpecTracker).                                *)
(***************************************************************************)
\* the fields C3 names
StateFields(pt) ==
    <<pt.CurrentNode, pt.CurrentStep, pt.TotalSteps, pt.CompletedNodes, pt.IsCompleted,
      pt.HasError>>

\* C2: a message handled by a tracker that was Completed or Failed leaves
\* every field of the tracker as it was.
C2_TerminalTrackerIgnoresEvents ==
    (Handled /\ Terminal(prev)) => tracker = prev

\* C3: a message that carries another job id than the tracked one leaves
\* the tracker's current node, step counters, completed-node count and
\* flags as they were.
C3_OtherJobEventsIgnored ==
    (Handled /\ JobOf(lastMsg) \notin {"", Tracked}) => StateFields(tracker) = StateFields(prev)

\* C9: after an executing message of the tracked job whose node is absent,
\* null or the empty string, the tracker is Completed and its current node
\* is the one it had before.
C9_EmptyNodeIsCompletion ==
    (Handled /\ IsCompletionFor(lastMsg, Tracked))
        => Completed(tracker) /\ tracker.CurrentNode = prev.CurrentNode

(***************************************************************************)
(* handleProgressMessage over a stream that interleaves two jobs, with the *)
(* tracked job's own events remembered beside the tracker.                 *)
(***************************************************************************)
ModeSequence == "ProgressTracker over an interleaved stream"

\* node starts, progress reports and node results of either job
SeqMsgs ==
    {ExecutingNode(j, n) : j \in Jobs, n \in Nodes}
    \cup {ProgressOf(j, v, m) : j \in Jobs, v \in Steps, m \in Steps}
    \cup {ExecutedOf(j, "n1") : j \in Jobs}

\* history: what the tracked job's own events say after msg.  A node start
\* opens a sequence, progress reports of the job are remembered (the last
\* one wins), and the next node start of the job closes it; events of
\* other jobs leave it alone.
OwnAfter(o, msg) ==
    IF JobOf(msg) # Tracked THEN o
    ELSE CASE msg.Type = MessageTypeExecuting ->
                  IF o.stage = "progressed"
                  THEN [o EXCEPT !.stage = "advanced", !.Node = msg.Data["node"][2]]
                  ELSE [NoOwn EXCEPT !.stage = "started", !.Node = msg.Data["node"][2]]
           [] msg.Type = MessageTypeProgress ->
                  IF o.stage = "none" THEN o
                  ELSE [o EXCEPT !.stage = "progressed", !.Value = msg.Data["value"][2],
                                 !.Max = msg.Data["max"][2]]
           [] OTHER -> NoOwn

InitSequence ==
    /\ mode = ModeSequence
    /\ InitConn(FALSE)
    /\ wpc = [w \in Waiters |-> "idle"]
    /\ werr = [w \in Waiters |-> None]
    /\ ctx = [w \in Waiters |-> "active"]
    /\ result = None
    /\ now = 0
    /\ tracker = NewProgressTracker(Tracked, now)
    /\ InitHist

\* handleProgressMessage(msg, tracker, promptID)
HandleInSequence(msg) ==
    /\ mode = ModeSequence
    /\ msg.Type = MessageTypeExecuted => tracker.CompletedNodes < MaxNodes
    /\ tracker' = handleProgressMessage(msg, tracker, Tracked, now)
    /\ lastMsg' = msg
    /\ prev' = tracker
    /\ own' = OwnAfter(own, msg)
    /\ UNCHANGED <<mode, connVars, waitVars, now, decoded, taken, badRead, reported,
                   readFailed, lostWith, closers, retVia, firstTerminal, termDelivered,
                   fetched, lastOp, wf, cl, heap, nextID, cloned, emitted, closing, retry>>

NextSequence == \E msg \in SeqMsgs : HandleInSequence(msg)

SpecSequence == InitSequence /\ [][NextSequence]_vars

\* C11: when the tracked job's events executing(X), progress(v, m),
\* executing(Y) have been handled in that order, with events of other jobs
\* anywhere between them, the tracker's current node is Y and its steps
\* are (v, m) of the job's last progress event.
C11_OwnSequenceDecidesNodeAndSteps ==
    (own.stage = "advanced" /\ lastMsg = ExecutingNode(Tracked, own.Node))
        => /\ tracker.CurrentNode = own.Node
           /\ tracker.CurrentStep = own.Value
           /\ tracker.TotalSteps = own.Max

(***************************************************************************)
(* Properties of the tracker alone (SpecTracker), continued.               *)
(***************************************************************************)
\* the events that make the tracked job's tracker terminal: a completion
\* (executing with a nil node) and an execution error
IsCompletionEvent(msg) ==
    msg \in {ExecutingNull(Tracked), ExecutingAbsent(Tracked)}
IsErrorEvent(msg) == msg = ErrorOf(Tracked)

\* the tracker had already received the terminal event msg
AlreadyReceived(pt, msg) ==
    \/ IsCompletionEvent(msg) /\ pt.IsCompleted
    \/ IsErrorEvent(msg) /\ pt.HasError
         /\ pt.ErrorMessage = FormatError("RuntimeError", "boom")

\* C12: when a terminal event of the tracked job is handled by a tracker
\* that had already received that event, no field of the tracker changes.
C12_RepeatedTerminalEventChangesNothing ==
    (Handled /\ AlreadyReceived(prev, lastMsg)) => tracker = prev

\* the execution error has been delivered a second time, at a later time
C12_Witness ==
    /\ Handled /\ IsErrorEvent(lastMsg)
    /\ AlreadyReceived(prev, lastMsg)
    /\ now > prev.LastUpdate

(***************************************************************************)
(* The HTTP client.  A call is a function of the server's reply: whether   *)
(* the round trip succeeded, the status code and the body.  A JSON value   *)
(* is a pair <<kind, payload>>; an object's payload is a function from its *)
(* keys, an array's payload a sequence.                                    *)
(***************************************************************************)
Obj(m) == <<"object", m>>
Arr(s) == <<"array", s>>
\* a body that is not JSON
Invalid == <<"invalid", 0>>

Kind(v) == v[1]
Payload(v) == v[2]

\* encoding/json into a struct field: an absent key and null leave the
\* field at its zero value, a value of another kind is an error
StringField(m, k) ==
    IF k \notin DOMAIN m \/ Kind(m[k]) = "null" THEN [ok |-> TRUE, val |-> ""]
    ELSE IF Kind(m[k]) = "string" THEN [ok |-> TRUE, val |-> Payload(m[k])]
    ELSE [ok |-> FALSE, val |-> ""]

IntField(m, k) ==
    IF k \notin DOMAIN m \/ Kind(m[k]) = "null" THEN [ok |-> TRUE, val |-> 0]
    ELSE IF Kind(m[k]) = "number" THEN [ok |-> TRUE, val |-> Payload(m[k])]
    ELSE [ok |-> FALSE, val |-> 0]

MapField(m, k) ==
    IF k \notin DOMAIN m \/ Kind(m[k]) = "null" THEN [ok |-> TRUE, val |-> EmptyMap]
    ELSE IF Kind(m[k]) = "object" THEN [ok |-> TRUE, val |-> Payload(m[k])]
    ELSE [ok |-> FALSE, val |-> EmptyMap]

\* var resp QueuePromptResponse
ZeroQueuePromptResponse == [PromptID |-> "", Number |-> 0, NodeErrors |-> EmptyMap]

\* json.NewDecoder(resp.Body).Decode(&resp) for a QueuePromptResponse
DecodeQueuePromptResponse(body) ==
    IF Kind(body) = "null" THEN [err |-> "nil", val |-> ZeroQueuePromptResponse]
    ELSE IF Kind(body) # "object" THEN [err |-> "decode", val |-> ZeroQueuePromptResponse]
    ELSE LET m == Payload(body)
             id == StringField(m, "prompt_id")
             nr == IntField(m, "number")
             ne == MapField(m, "node_errors")
         IN  [err |-> IF id.ok /\ nr.ok /\ ne.ok THEN "nil" ELSE "decode",
              val |-> [PromptID |-> id.val, Number |-> nr.val, NodeErrors |-> ne.val]]

\* the server's reply to one request
Reply(sent, status, body) == [sent |-> sent, status |-> status, body |-> body]

\* doRequest: the error it returns and the result it filled, dec being
\* what json.NewDecoder(resp.Body).Decode(result) gives for the body
doRequest(reply, dec, zero) ==
    IF ~reply.sent THEN [err |-> "request failed", val |-> zero]
    ELSE IF reply.status < 200 \/ reply.status >= 300
         THEN [err |-> "request failed with status", val |-> zero]
         ELSE IF dec.err # "nil"
              THEN [err |-> "failed to decode response", val |-> dec.val]
              ELSE [err |-> "nil", val |-> dec.val]

\* the nil *QueuePromptResponse
NilResponse == [nil |-> TRUE]
PointerTo(v) == [nil |-> FALSE, val |-> v]

\* QueuePrompt accepting any node_errors
QueuePromptLenient(reply) ==
    LET r == doRequest(reply, DecodeQueuePromptResponse(reply.body), ZeroQueuePromptResponse)
    IN  IF r.err # "nil"
        THEN [resp |-> NilResponse, err |-> "failed to queue prompt"]
        ELSE [resp |-> PointerTo(r.val), err |-> "nil"]

\* Client.QueuePrompt: the response pointer and the error it returns
QueuePrompt(reply) ==
    LET r == doRequest(reply, DecodeQueuePromptResponse(reply.body), ZeroQueuePromptResponse)
    IN  IF r.err # "nil"
        THEN [resp |-> NilResponse, err |-> "failed to queue prompt"]
        ELSE IF Cardinality(DOMAIN r.val.NodeErrors) > 0
             THEN [resp |-> PointerTo(r.val), err |-> "node errors"]
             ELSE [resp |-> PointerTo(r.val), err |-> "nil"]

StatusCodes == {200, 201, 400, 500}

\* what a server may put under each key of its answer to POST /prompt
PromptIDValues == {Str("abc"), Num(7)}
NumberValues == {Num(1), Str("x")}
NodeErrorValues ==
    {Null, Obj(EmptyMap), Obj([n1 |-> Str("bad input")]),
     Obj([n1 |-> Str("bad input"), n2 |-> Str("missing")]), Arr(<<>>)}

\* the function f restricted to the keys in S
Restrict(f, S) == [k \in S |-> f[k]]

\* the bodies a server may answer POST /prompt with: not JSON, null, or an
\* object with any subset of the three keys
QueuePromptBodies ==
    {Invalid, Null}
    \cup {Obj(Restrict([prompt_id |-> p, number |-> n, node_errors |-> e], ks)) :
            ks \in SUBSET {"prompt_id", "number", "node_errors"},
            p \in PromptIDValues, n \in NumberValues, e \in NodeErrorValues}

Replies(bodies) ==
    {Reply(FALSE, 0, Invalid)} \cup {Reply(TRUE, st, b) : st \in StatusCodes, b \in bodies}

ModeClient == "Client"

InitClient ==
    /\ mode = ModeClient
    /\ InitConn(FALSE)
    /\ wpc = [w \in Waiters |-> "idle"]
    /\ werr = [w \in Waiters |-> None]
    /\ ctx = [w \in Waiters |-> "active"]
    /\ result = None
    /\ now = 0
    /\ tracker = NewProgressTracker(Tracked, now)
    /\ InitHist

\* every variable but lastOp
clientFrame == <<mode, connVars, waitVars, tracker, now, decoded, taken, badRead, reported,
                 readFailed, lostWith, closers, retVia, firstTerminal, termDelivered,
                 fetched, lastMsg, prev, wf, cl, heap, nextID, own, cloned, emitted, closing, retry>>

\* resp, err := client.QueuePrompt(ctx, workflow, extraData)
CallQueuePrompt(reply) ==
    /\ mode = ModeClient
    /\ lastOp' = [op |-> "QueuePrompt", reply |-> reply, ret |-> QueuePrompt(reply)]
    /\ UNCHANGED clientFrame

\* the reply carries a node_errors object with at least one entry
HasNodeErrors(reply) ==
    /\ reply.sent
    /\ Kind(reply.body) = "object"
    /\ "node_errors" \in DOMAIN Payload(reply.body)
    /\ Kind(Payload(reply.body)["node_errors"]) = "object"
    /\ DOMAIN Payload(Payload(reply.body)["node_errors"]) # {}

\* the reply is a 2xx answer whose body is an object with a string
\* prompt_id and, where present, a numeric number
IsQueuePromptAnswer(reply) ==
    /\ reply.sent
    /\ reply.status \in {200, 201}
    /\ Kind(reply.body) = "object"
    /\ LET m == Payload(reply.body)
       IN  /\ "prompt_id" \in DOMAIN m /\ Kind(m["prompt_id"]) = "string"
           /\ "number" \in DOMAIN m => Kind(m["number"]) \in {"number", "null"}
           /\ "node_errors" \in DOMAIN m => Kind(m["node_errors"]) \in {"object", "null"}

\* C13: QueuePrompt returns a non-nil error whenever the reply carries a
\* non-empty node_errors object; for an answer whose node_errors is empty,
\* null or absent it returns a nil error and a response with the answer's
\* prompt id.
C13_NodeErrorsAreAnError ==
    lastOp.op = "QueuePrompt" =>
        /\ HasNodeErrors(lastOp.reply) => lastOp.ret.err # "nil"
        /\ (IsQueuePromptAnswer(lastOp.reply) /\ ~HasNodeErrors(lastOp.reply))
               => /\ lastOp.ret.err = "nil"
                  /\ ~lastOp.ret.resp.nil
                  /\ lastOp.ret.resp.val.PromptID
                         = Payload(Payload(lastOp.reply.body)["prompt_id"])

\* a 200 answer with a prompt id and one node error was turned into an error
C13_Witness ==
    /\ lastOp.op = "QueuePrompt"
    /\ lastOp.reply.status = 200
    /\ IsQueuePromptAnswer(lastOp.reply) /\ HasNodeErrors(lastOp.reply)
    /\ lastOp.ret.err = "node errors"
    /\ ~lastOp.ret.resp.nil

(***************************************************************************)
(* GET /queue.  QueueStatus and QueueItem have no decoder of their own, so *)
(* encoding/json decodes them as structs: QueueItem from a JSON object     *)
(* with the keys "0" to "4".                                               *)
(***************************************************************************)
SliceField(m, k) ==
    IF k \notin DOMAIN m \/ Kind(m[k]) = "null" THEN [ok |-> TRUE, val |-> <<>>]
    ELSE IF Kind(m[k]) = "array" THEN [ok |-> TRUE, val |-> Payload(m[k])]
    ELSE [ok |-> FALSE, val |-> <<>>]

ZeroQueueItem ==
    [Number |-> 0, PromptID |-> "", Prompt |-> EmptyMap, ExtraData |-> EmptyMap,
     Outputs |-> <<>>]

\* one element of queue_running or queue_pending into a QueueItem: an
\* object is read key by key, null leaves the zero item, and any other
\* kind (an array among them) is "cannot unmarshal array into Go struct field"
DecodeQueueItem(v) ==
    IF Kind(v) = "null" THEN [ok |-> TRUE, val |-> ZeroQueueItem]
    ELSE IF Kind(v) # "object" THEN [ok |-> FALSE, val |-> ZeroQueueItem]
    ELSE LET m == Payload(v)
             nr == IntField(m, "0")
             id == StringField(m, "1")
             pr == MapField(m, "2")
             ex == MapField(m, "3")
             ou == SliceField(m, "4")
         IN  [ok |-> nr.ok /\ id.ok /\ pr.ok /\ ex.ok /\ ou.ok,
              val |-> [Number |-> nr.val, PromptID |-> id.val, Prompt |-> pr.val,
                       ExtraData |-> ex.val, Outputs |-> ou.val]]

\* a []QueueItem field
QueueItemsField(m, k) ==
    LET s == SliceField(m, k)
        items == [i \in DOMAIN s.val |-> DecodeQueueItem(s.val[i])]
    IN  [ok |-> s.ok /\ \A i \in DOMAIN items : items[i].ok,
         val |-> [i \in DOMAIN items |-> items[i].val]]

\* var queue QueueStatus
ZeroQueueStatus == [QueueRunning |-> <<>>, QueuePending |-> <<>>]

\* json.NewDecoder(resp.Body).Decode(&queue) for a QueueStatus
DecodeQueueStatus(body) ==
    IF Kind(body) = "null" THEN [err |-> "nil", val |-> ZeroQueueStatus]
    ELSE IF Kind(body) # "object" THEN [err |-> "decode", val |-> ZeroQueueStatus]
    ELSE LET run == QueueItemsField(Payload(body), "queue_running")
             pen == QueueItemsField(Payload(body), "queue_pending")
         IN  [err |-> IF run.ok /\ pen.ok THEN "nil" ELSE "decode",
              val |-> [QueueRunning |-> run.val, QueuePending |-> pen.val]]

\* Client.GetQueue: the status pointer and the error it returns
GetQueue(reply) ==
    LET r == doRequest(reply, DecodeQueueStatus(reply.body), ZeroQueueStatus)
    IN  IF r.err # "nil"
        THEN [queue |-> NilResponse, err |-> "failed to get queue"]
        ELSE [queue |-> PointerTo(r.val), err |-> "nil"]

\* a queue entry as the server sends it: [number, prompt_id, prompt,
\* extra_data, outputs_to_execute]
QueueTuple(n, id) == Arr(<<Num(n), Str(id), Obj(EmptyMap), Obj(EmptyMap), Arr(<<>>)>>)
\* the same entry as an object keyed by position
QueueObject(n, id) == Obj([p \in {"0", "1"} |-> IF p = "0" THEN Num(n) ELSE Str(id)])

QueueLists ==
    {<<>>, <<QueueTuple(1, "abc")>>, <<QueueTuple(1, "abc"), QueueTuple(2, "def")>>,
     <<QueueObject(1, "abc")>>, <<Null>>, <<Str("abc")>>}

QueueBodies ==
    {Invalid, Null}
    \cup {Obj(Restrict([queue_running |-> Arr(r), queue_pending |-> Arr(p)], ks)) :
            ks \in SUBSET {"queue_running", "queue_pending"},
            r \in QueueLists, p \in QueueLists}

\* queue, err := client.GetQueue(ctx)
CallGetQueue(reply) ==
    /\ mode = ModeClient
    /\ lastOp' = [op |-> "GetQueue", reply |-> reply, ret |-> GetQueue(reply)]
    /\ UNCHANGED clientFrame

\* v is a positional entry [number, prompt id, graph, extra data, outputs]
IsQueueTuple(v) ==
    /\ Kind(v) = "array" /\ Len(Payload(v)) = 5
    /\ Kind(Payload(v)[1]) = "number" /\ Kind(Payload(v)[2]) = "string"

\* the reply is a 2xx answer whose two lists hold positional entries only
IsQueueAnswer(reply) ==
    /\ reply.sent /\ reply.status \in {200, 201}
    /\ Kind(reply.body) = "object"
    /\ DOMAIN Payload(reply.body) = {"queue_running", "queue_pending"}
    /\ \A k \in DOMAIN Payload(reply.body) :
           \A i \in DOMAIN Payload(Payload(reply.body)[k]) :
               IsQueueTuple(Payload(Payload(reply.body)[k])[i])

\* the items decoded from list s carry the numbers and prompt ids of s
SameEntries(items, s) ==
    /\ Len(items) = Len(s)
    /\ \A i \in DOMAIN s :
           /\ items[i].Number = Payload(Payload(s[i])[1])
           /\ items[i].PromptID = Payload(Payload(s[i])[2])

\* C14: a queue answer whose queue_running and queue_pending hold
\* positional entries decodes without error into items whose number and
\* prompt id are positions 0 and 1 of each entry.
C14_PositionalQueueEntriesDecode ==
    (lastOp.op = "GetQueue" /\ IsQueueAnswer(lastOp.reply)) =>
        /\ lastOp.ret.err = "nil"
        /\ ~lastOp.ret.queue.nil
        /\ SameEntries(lastOp.ret.queue.val.QueueRunning,
                       Payload(Payload(lastOp.reply.body)["queue_running"]))
        /\ SameEntries(lastOp.ret.queue.val.QueuePending,
                       Payload(Payload(lastOp.reply.body)["queue_pending"]))

(***************************************************************************)
(* The prompt array of a history entry: [number, prompt_id, workflow,      *)
(* extra_data, outputs_to_execute].  nil maps and slices are Null.         *)
(***************************************************************************)
\* data[k].(map[string]interface{})
IsObject(data, k) == k \in DOMAIN data /\ Kind(data[k]) = "object"

\* the loop over workflowData: a node is kept only if it is an object; its
\* class_type is read if it is a string, its inputs if they are an object
DecodeWorkflow(workflowData) ==
    [k \in {id \in DOMAIN workflowData : Kind(workflowData[id]) = "object"} |->
        LET nodeData == Payload(workflowData[k])
        IN  [ClassType |-> IF IsString(nodeData, "class_type")
                           THEN Payload(nodeData["class_type"]) ELSE "",
             Inputs |-> IF IsObject(nodeData, "inputs") THEN nodeData["inputs"] ELSE Null]]

\* the strings of a []interface{}, in order
RECURSIVE StringsOf(_)
StringsOf(s) ==
    IF s = <<>> THEN <<>>
    ELSE IF Kind(Head(s)) = "string" THEN <<Payload(Head(s))>> \o StringsOf(Tail(s))
    ELSE StringsOf(Tail(s))

\* the PromptArray before UnmarshalJSON
ZeroPromptArray ==
    [Number |-> 0, PromptID |-> "", Workflow |-> Null, ExtraData |-> Null,
     OutputsToExecute |-> Null]

\* UnmarshalJSON that stops after extra_data
UnmarshalPromptArrayWithoutOutputs(data) ==
    IF Kind(data) \notin {"array", "null"} THEN [err |-> "unmarshal", val |-> ZeroPromptArray]
    ELSE LET arr == IF Kind(data) = "null" THEN <<>> ELSE Payload(data)
         IN  IF Len(arr) < 3 THEN [err |-> "prompt array too short", val |-> ZeroPromptArray]
             ELSE [err |-> "nil",
                   val |-> [Number |-> IF Kind(arr[1]) = "number" THEN Payload(arr[1]) ELSE 0,
                            PromptID |-> IF Kind(arr[2]) = "string" THEN Payload(arr[2]) ELSE "",
                            Workflow |-> IF Kind(arr[3]) = "object"
                                         THEN Obj(DecodeWorkflow(Payload(arr[3]))) ELSE Null,
                            ExtraData |-> IF Len(arr) > 3 /\ Kind(arr[4]) = "object"
                                          THEN arr[4] ELSE Null,
                            OutputsToExecute |-> Null]]

\* PromptArray.UnmarshalJSON(data): the error and the PromptArray.  The
\* positions arr[0]..arr[4] of the code are arr[1]..arr[5] here.
UnmarshalPromptArray(data) ==
    IF Kind(data) \notin {"array", "null"} THEN [err |-> "unmarshal", val |-> ZeroPromptArray]
    ELSE LET arr == IF Kind(data) = "null" THEN <<>> ELSE Payload(data)
         IN  IF Len(arr) < 3 THEN [err |-> "prompt array too short", val |-> ZeroPromptArray]
             ELSE [err |-> "nil",
                   val |-> [Number |-> IF Kind(arr[1]) = "number" THEN Payload(arr[1]) ELSE 0,
                            PromptID |-> IF Kind(arr[2]) = "string" THEN Payload(arr[2]) ELSE "",
                            Workflow |-> IF Kind(arr[3]) = "object"
                                         THEN Obj(DecodeWorkflow(Payload(arr[3]))) ELSE Null,
                            ExtraData |-> IF Len(arr) > 3 /\ Kind(arr[4]) = "object"
                                          THEN arr[4] ELSE Null,
                            OutputsToExecute |->
                                IF Len(arr) > 4 /\ Kind(arr[5]) = "array"
                                THEN Arr(StringsOf(Payload(arr[5]))) ELSE Null]]

\* a graph as the server sends it: one sampler wired to a loader
GraphJSON ==
    Obj(("3" :> Obj([class_type |-> Str("KSampler"),
                     inputs |-> Obj([steps |-> Num(20),
                                     model |-> Arr(<<Str("4"), Num(0)>>)])]))
        @@ ("4" :> Obj([class_type |-> Str("CheckpointLoader"), inputs |-> Obj(EmptyMap)])))
\* a graph with a node that has neither class_type nor inputs, and an
\* entry that is not an object
OddGraphJSON ==
    Obj(("3" :> Obj([inputs |-> Null])) @@ ("4" :> Str("junk")))

\* what may stand at each position of a prompt array
PositionValues ==
    <<{Num(1), Str("x")},
      {Str("abc"), Num(7)},
      {GraphJSON, OddGraphJSON, Null},
      {Obj([client_id |-> Str("c")]), Null},
      {Arr(<<Str("9")>>), Arr(<<Str("9"), Num(3)>>), Null}>>

\* the arrays of length n drawn from the first n positions
RECURSIVE ArraysOfLength(_)
ArraysOfLength(n) ==
    IF n = 0 THEN {<<>>}
    ELSE {Append(a, v) : a \in ArraysOfLength(n - 1), v \in PositionValues[n]}

PromptArrayData ==
    {Invalid, Null, Obj(EmptyMap)}
    \cup {Arr(a) : a \in UNION {ArraysOfLength(n) : n \in 0..Len(PositionValues)}}

\* json.Unmarshal(data, &promptArray)
CallUnmarshalPromptArray(data) ==
    /\ mode = ModeClient
    /\ lastOp' = [op |-> "PromptArray.UnmarshalJSON", data |-> data,
                  ret |-> UnmarshalPromptArray(data)]
    /\ UNCHANGED clientFrame

\* the last call decoded a JSON array of n elements
DecodedArrayOfLength(n) ==
    /\ lastOp.op = "PromptArray.UnmarshalJSON"
    /\ Kind(lastOp.data) = "array"
    /\ Len(Payload(lastOp.data)) = n

\* positions 0 and 1 of the decoded array are a number and a string
HeaderWellTyped ==
    /\ Kind(Payload(lastOp.data)[1]) = "number"
    /\ Kind(Payload(lastOp.data)[2]) = "string"

\* C15: a prompt array of length 3, 4 or 5 with a number at position 0 and
\* a string at position 1 decodes without error; number and prompt id are
\* those positions, the workflow is filled from an object at position 2,
\* extra data is filled only when the length exceeds 3 and then from
\* position 3, outputs only when the length exceeds 4 and then with the
\* strings of position 4; an array shorter than 3 is an error.
C15_PromptArrayDecodesByLength ==
    /\ \A n \in 3..5 :
         (DecodedArrayOfLength(n) /\ HeaderWellTyped) =>
             LET arr == Payload(lastOp.data)
                 p == lastOp.ret.val
             IN  /\ lastOp.ret.err = "nil"
                 /\ p.Number = Payload(arr[1])
                 /\ p.PromptID = Payload(arr[2])
                 /\ Kind(arr[3]) = "object" =>
                        /\ Kind(p.Workflow) = "object"
                        /\ DOMAIN Payload(p.Workflow)
                               = {id \in DOMAIN Payload(arr[3]) :
                                     Kind(Payload(arr[3])[id]) = "object"}
                 /\ p.ExtraData # Null => n > 3 /\ p.ExtraData = arr[4]
                 /\ (n > 3 /\ Kind(arr[4]) = "object") => p.ExtraData = arr[4]
                 /\ p.OutputsToExecute # Null => n > 4
                 /\ (n > 4 /\ Kind(arr[5]) = "array") =>
                        p.OutputsToExecute = Arr(StringsOf(Payload(arr[5])))
    /\ \A n \in 0..2 : DecodedArrayOfLength(n) => lastOp.ret.err # "nil"

\* a full array of five positions was decoded into all five fields
C15_Witness ==
    /\ DecodedArrayOfLength(5) /\ HeaderWellTyped
    /\ lastOp.ret.err = "nil"
    /\ lastOp.ret.val.Number = 1 /\ lastOp.ret.val.PromptID = "abc"
    /\ Kind(lastOp.ret.val.Workflow) = "object"
    /\ "3" \in DOMAIN Payload(lastOp.ret.val.Workflow)
    /\ lastOp.ret.val.ExtraData # Null
    /\ lastOp.ret.val.OutputsToExecute = Arr(<<"9">>)

\* C16: decoding a prompt array whose position 0 is not a number or whose
\* position 1 is not a string returns an error, whatever its length.
C16_IllTypedHeaderIsAnError ==
    \A n \in 2..5 :
        (DecodedArrayOfLength(n) /\ ~HeaderWellTyped) => lastOp.ret.err # "nil"

NextClient ==
    \/ \E reply \in Replies(QueuePromptBodies) : CallQueuePrompt(reply)
    \/ \E reply \in Replies(QueueBodies) : CallGetQueue(reply)
    \/ \E data \in PromptArrayData : CallUnmarshalPromptArray(data)

SpecClient == InitClient /\ [][NextClient]_vars

\* C17: the percentage of a tracker is at most 100, and it is 0 when the
\* total is 0, whatever (value, max) the progress events carried.
C17_PercentageAtMostHundred ==
    LET p == GetProgressPercentage(tracker)
    IN  /\ p.num <= 100 * p.den
        /\ tracker.TotalSteps = 0 => p.num = 0

(***************************************************************************)
(* Workflows.  A Workflow is a map from node id to Node; a Node holds its  *)
(* class type and a reference to its Inputs map (a Go map is a reference:  *)
(* copying the Node copies the reference).  heap[r] is the map behind      *)
(* reference r, and NilRef is the nil map.  An input value carries its     *)
(* dynamic type: GoInt is an int, Num a float64, Str a string, Arr a       *)
(* []interface{}.                                                          *)
(***************************************************************************)
GoInt(n) == <<"int", n>>

NilRef == 0

\* the map m with m[k] = v
Put(m, k, v) == [x \in DOMAIN m \cup {k} |-> IF x = k THEN v ELSE m[x]]
\* delete(m, k)
Delete(m, k) == [x \in DOMAIN m \ {k} |-> m[x]]

\* fmt.Sprintf("%d", n) for n >= 0
Digits == <<"0", "1", "2", "3", "4", "5", "6", "7", "8", "9">>

RECURSIVE Itoa(_)
Itoa(n) == IF n < 10 THEN Digits[n + 1] ELSE Itoa(n \div 10) \o Digits[(n % 10) + 1]

\* the node ids in use, in a fixed order
IDSeq == [i \in 1..MaxBuilt |-> Itoa(i)]
IDs == {IDSeq[i] : i \in DOMAIN IDSeq}
\* the node ids of the workflows that are cloned
CloneIDs == {Itoa(1), Itoa(2)}

ClassTypes == {"", "KSampler"}
InputNames == {"steps"}
\* the producers ConnectNodes wires from, and the input it wires to
SourceIDs == {IDSeq[1]}
TargetInputs == {"model"}
\* the values a caller stores with SetNodeInput
InputValues == {GoInt(20)}
\* the maps a caller passes to AddNode: nil, or a new map literal
NewInputs == {Null, Obj([steps |-> GoInt(20)])}

\* the workflow as its content: each node with its class type and the
\* content of its Inputs map (Null for the nil map)
View(w, h) ==
    [id \in DOMAIN w |->
        [ClassType |-> w[id].ClassType,
         Inputs |-> IF w[id].Inputs = NilRef THEN Null ELSE Obj(h[w[id].Inputs])]]

\* a map the caller already holds: one it passed to an earlier call or took
\* from a node, so one that is on the heap
Held(r) == <<"held", r>>
HeldMaps == {Held(r) : r \in DOMAIN heap}

\* the map an argument of AddNode refers to: nil, a map the caller holds,
\* or a new map, which is put on the heap
RefOfArg(h, inputs) ==
    IF inputs = Null THEN NilRef
    ELSE IF Kind(inputs) = "held" THEN Payload(inputs) ELSE Len(h) + 1
HeapWithArg(h, inputs) ==
    IF inputs = Null \/ Kind(inputs) = "held" THEN h ELSE Append(h, Payload(inputs))

\* SetNodeInput that creates the node it does not find
SetNodeInputCreating(w, h, nodeID, inputName, value) ==
    LET ref == IF nodeID \in DOMAIN w /\ w[nodeID].Inputs # NilRef
               THEN w[nodeID].Inputs ELSE Len(h) + 1
        h1 == IF ref = Len(h) + 1 THEN Append(h, EmptyMap) ELSE h
    IN  [err |-> "nil",
         w |-> Put(w, nodeID, [ClassType |-> IF nodeID \in DOMAIN w
                                             THEN w[nodeID].ClassType ELSE "",
                               Inputs |-> ref]),
         heap |-> [h1 EXCEPT ![ref] = Put(@, inputName, value)]]

\* Workflow.GetNodeInput: the value and the error; a lookup in a nil map
\* finds nothing
GetNodeInput(w, h, nodeID, inputName) ==
    IF nodeID \notin DOMAIN w THEN [err |-> "node not found", val |-> Null]
    ELSE IF w[nodeID].Inputs = NilRef \/ inputName \notin DOMAIN h[w[nodeID].Inputs]
         THEN [err |-> "input not found", val |-> Null]
         ELSE [err |-> "nil", val |-> h[w[nodeID].Inputs][inputName]]

\* Workflow.SetNodeInput
SetNodeInput(w, h, nodeID, inputName, value) ==
    IF nodeID \notin DOMAIN w THEN [err |-> "node not found", w |-> w, heap |-> h]
    ELSE LET node == w[nodeID]
             h1 == IF node.Inputs = NilRef THEN Append(h, EmptyMap) ELSE h
             ref == IF node.Inputs = NilRef THEN Len(h1) ELSE node.Inputs
         IN  [err |-> "nil",
              w |-> Put(w, nodeID, [node EXCEPT !.Inputs = ref]),
              heap |-> [h1 EXCEPT ![ref] = Put(@, inputName, value)]]

\* Workflow.AddNode
AddNode(w, h, nodeID, classType, inputs) ==
    [err |-> "nil",
     w |-> Put(w, nodeID, [ClassType |-> classType, Inputs |-> RefOfArg(h, inputs)]),
     heap |-> HeapWithArg(h, inputs)]

\* WorkflowBuilder.AddNode that increments the counter before it names the node
WorkflowBuilderAddNodeIncrementFirst(w, h, next, classType, inputs) ==
    [id |-> Itoa(next + 1), nextID |-> next + 1, err |-> "nil",
     w |-> AddNode(w, h, Itoa(next + 1), classType, inputs).w,
     heap |-> AddNode(w, h, Itoa(next + 1), classType, inputs).heap]

\* WorkflowBuilder.AddNode: the id is the counter in decimal, the counter
\* is incremented, the node is stored under the id, the id is returned
WorkflowBuilderAddNode(w, h, next, classType, inputs) ==
    [id |-> Itoa(next), nextID |-> next + 1, err |-> "nil",
     w |-> AddNode(w, h, Itoa(next), classType, inputs).w,
     heap |-> AddNode(w, h, Itoa(next), classType, inputs).heap]

\* Workflow.RemoveNode
RemoveNode(w, h, nodeID) == [err |-> "nil", w |-> Delete(w, nodeID), heap |-> h]

\* json.Marshal of an input value: an int and a float64 are both written
\* as a JSON number, and a number is read back as a float64
RECURSIVE MarshalValue(_)
MarshalValue(v) ==
    CASE Kind(v) = "int" -> Num(Payload(v))
      [] Kind(v) = "array" -> Arr([i \in DOMAIN Payload(v) |-> MarshalValue(Payload(v)[i])])
      [] Kind(v) = "object" -> Obj([k \in DOMAIN Payload(v) |-> MarshalValue(Payload(v)[k])])
      [] OTHER -> v

\* json.Marshal(w): a nil Inputs map is written as null
MarshalWorkflow(view) ==
    Obj([id \in DOMAIN view |->
            Obj([class_type |-> Str(view[id].ClassType),
                 inputs |-> IF view[id].Inputs = Null THEN Null
                            ELSE MarshalValue(view[id].Inputs)])])

\* encoding/json into a Node: null is the zero Node, an object is read
\* field by field, anything else is an error
UnmarshalNode(v) ==
    IF Kind(v) = "null" THEN [ok |-> TRUE, val |-> [ClassType |-> "", Inputs |-> Null]]
    ELSE IF Kind(v) # "object" THEN [ok |-> FALSE, val |-> [ClassType |-> "", Inputs |-> Null]]
    ELSE LET ct == StringField(Payload(v), "class_type")
             okIn == "inputs" \in DOMAIN Payload(v)
                         => Kind(Payload(v)["inputs"]) \in {"null", "object"}
         IN  [ok |-> ct.ok /\ okIn,
              val |-> [ClassType |-> ct.val,
                       Inputs |-> IF IsObject(Payload(v), "inputs")
                                  THEN Payload(v)["inputs"] ELSE Null]]

\* json.Unmarshal(data, &clone) for a Workflow
UnmarshalWorkflow(data) ==
    IF Kind(data) # "object" THEN [err |-> "unmarshal", val |-> EmptyMap]
    ELSE LET nodes == [id \in DOMAIN Payload(data) |-> UnmarshalNode(Payload(data)[id])]
         IN  [err |-> IF \A id \in DOMAIN nodes : nodes[id].ok THEN "nil" ELSE "unmarshal",
              val |-> [id \in DOMAIN nodes |-> nodes[id].val]]

\* the ids of view whose Inputs are not nil, in the order of IDSeq
WithInputs(view) ==
    SelectSeq(IDSeq, LAMBDA id : id \in DOMAIN view /\ view[id].Inputs # Null)

\* the position of x in the sequence s
IndexOf(s, x) == CHOOSE i \in DOMAIN s : s[i] = x

\* a workflow given by content, stored with new maps on the heap
Store(view, h) ==
    LET ids == WithInputs(view)
    IN  [w |-> [id \in DOMAIN view |->
                   [ClassType |-> view[id].ClassType,
                    Inputs |-> IF view[id].Inputs = Null THEN NilRef
                               ELSE Len(h) + IndexOf(ids, id)]],
         heap |-> h \o [i \in DOMAIN ids |-> Payload(view[ids[i]].Inputs)]]

\* Clone returning the same map with the same Inputs maps
CloneSharing(w, h) == [err |-> "nil", w |-> w, heap |-> h]

\* Workflow.Clone: json.Marshal, then json.Unmarshal into a new Workflow
Clone(w, h) ==
    LET d == UnmarshalWorkflow(MarshalWorkflow(View(w, h)))
    IN  IF d.err # "nil" THEN [err |-> "failed to unmarshal workflow", w |-> EmptyMap, heap |-> h]
        ELSE [err |-> "nil", w |-> Store(d.val, h).w, heap |-> Store(d.val, h).heap]

\* Validate that only refuses the empty workflow
ValidateNonEmpty(w, order) ==
    IF DOMAIN w = {} THEN "workflow is empty" ELSE "nil"

\* for id, node := range w { if node.ClassType == "" { return ... } }
RECURSIVE ValidateLoop(_, _)
ValidateLoop(w, order) ==
    IF order = <<>> THEN "nil"
    ELSE IF w[Head(order)].ClassType = "" THEN <<"no class_type", Head(order)>>
    ELSE ValidateLoop(w, Tail(order))

\* Workflow.Validate, the map being ranged over in the given order
Validate(w, order) ==
    IF DOMAIN w = {} THEN "workflow is empty" ELSE ValidateLoop(w, order)

\* Workflow.GetNode: the node and whether it was found; the zero Node
\* when it was not
GetNode(w, nodeID) ==
    IF nodeID \in DOMAIN w THEN [node |-> w[nodeID], ok |-> TRUE]
    ELSE [node |-> [ClassType |-> "", Inputs |-> NilRef], ok |-> FALSE]

\* NodeIDs that leaves out the nodes without a class type
RECURSIVE NodeIDsOfTyped(_, _)
NodeIDsOfTyped(w, order) ==
    IF order = <<>> THEN <<>>
    ELSE (IF w[Head(order)].ClassType = "" THEN <<>> ELSE <<Head(order)>>)
             \o NodeIDsOfTyped(w, Tail(order))

\* Workflow.NodeIDs, the map being ranged over in the given order:
\* for id := range w { ids = append(ids, id) }
RECURSIVE NodeIDs(_, _)
NodeIDs(w, order) ==
    IF order = <<>> THEN <<>> ELSE <<Head(order)>> \o NodeIDs(w, Tail(order))

\* WorkflowBuilder.ConnectNodes
ConnectNodes(w, h, sourceNodeID, sourceOutput, targetNodeID, targetInput) ==
    IF targetNodeID \notin DOMAIN w THEN [err |-> "target node not found", w |-> w, heap |-> h]
    ELSE LET targetNode == w[targetNodeID]
             h1 == IF targetNode.Inputs = NilRef THEN Append(h, EmptyMap) ELSE h
             ref == IF targetNode.Inputs = NilRef THEN Len(h1) ELSE targetNode.Inputs
         IN  [err |-> "nil",
              w |-> Put(w, targetNodeID, [targetNode EXCEPT !.Inputs = ref]),
              heap |-> [h1 EXCEPT ![ref] =
                           Put(@, targetInput, Arr(<<Str(sourceNodeID), GoInt(sourceOutput)>>))]]

(***************************************************************************)
(* The heap names maps by number.  The numbers carry no meaning and a map  *)
(* no node refers to is garbage, so after each call the maps in use are    *)
(* renumbered in the order in which wf and then cl refer to them.          *)
(***************************************************************************)
RECURSIVE RefsFrom(_, _)
RefsFrom(w, ids) ==
    IF ids = <<>> THEN <<>>
    ELSE (IF Head(ids) \in DOMAIN w /\ w[Head(ids)].Inputs # NilRef
          THEN <<w[Head(ids)].Inputs>> ELSE <<>>) \o RefsFrom(w, Tail(ids))

RECURSIVE Dedupe(_)
Dedupe(s) ==
    IF s = <<>> THEN <<>>
    ELSE LET front == Dedupe(SubSeq(s, 1, Len(s) - 1))
         IN  IF \E i \in DOMAIN front : front[i] = s[Len(s)] THEN front
             ELSE Append(front, s[Len(s)])

Renumber(w, order) ==
    [id \in DOMAIN w |->
        [w[id] EXCEPT !.Inputs = IF @ = NilRef THEN NilRef ELSE IndexOf(order, @)]]

Collect(w, c, h) ==
    LET order == Dedupe(RefsFrom(w, IDSeq) \o RefsFrom(c, IDSeq))
    IN  [wf |-> Renumber(w, order), cl |-> Renumber(c, order),
         heap |-> [i \in DOMAIN order |-> h[order[i]]]]

(***************************************************************************)
(* The calls on a workflow under construction (wf, the builder's) and,    *)
(* where clones are made, on a second Workflow (cl) that Clone assigns.    *)
(***************************************************************************)
ModeWorkflow == "Workflow"
ModeClone == "Workflow.Clone"
Targets == {"wf", "cl"}
Target(t) == IF t = "wf" THEN wf ELSE cl
\* the workflows the program holds
ActiveTargets == IF mode = ModeClone THEN Targets ELSE {"wf"}
\* a call on t can be made: cl is held once Clone has returned it
OnWorkflow(t) ==
    /\ mode \in {ModeWorkflow, ModeClone}
    /\ t \in ActiveTargets
    /\ t = "cl" => cloned

InitWorkflow ==
    /\ mode = ModeWorkflow
    /\ InitConn(FALSE)
    /\ wpc = [w \in Waiters |-> "idle"]
    /\ werr = [w \in Waiters |-> None]
    /\ ctx = [w \in Waiters |-> "active"]
    /\ result = None
    /\ now = 0
    /\ tracker = NewProgressTracker(Tracked, now)
    /\ InitHist

InitClone ==
    /\ mode = ModeClone
    /\ InitConn(FALSE)
    /\ wpc = [w \in Waiters |-> "idle"]
    /\ werr = [w \in Waiters |-> None]
    /\ ctx = [w \in Waiters |-> "active"]
    /\ result = None
    /\ now = 0
    /\ tracker = NewProgressTracker(Tracked, now)
    /\ InitHist

\* every variable the workflow calls leave alone
workflowFrame == <<mode, connVars, waitVars, tracker, now, decoded, taken, badRead, reported,
                   readFailed, lostWith, closers, retVia, firstTerminal, termDelivered,
                   fetched, lastMsg, prev, own, emitted,
                   closing, retry>>

\* the call on target t returned r = [err, w, heap]
Commit(t, r, call) ==
    LET c == Collect(IF t = "wf" THEN r.w ELSE wf, IF t = "cl" THEN r.w ELSE cl, r.heap)
    IN  /\ wf' = c.wf
        /\ cl' = c.cl
        /\ heap' = c.heap
        /\ lastOp' = [call EXCEPT !.err = r.err]
        /\ cloned' = (cloned \/ (call.op = "Clone" /\ r.err = "nil"))
        /\ UNCHANGED workflowFrame

\* a call: its name, the workflow it is made on, its arguments, and the
\* error and value it returns
Call(op, t, args) == [op |-> op, target |-> t, args |-> args, err |-> "nil", ret |-> Null]

CallSetNodeInput(t, nodeID, inputName, value) ==
    /\ OnWorkflow(t)
    /\ Commit(t, SetNodeInput(Target(t), heap, nodeID, inputName, value),
              Call("SetNodeInput", t, <<nodeID, inputName, value>>))
    /\ UNCHANGED nextID

CallAddNode(t, nodeID, classType, inputs) ==
    /\ OnWorkflow(t)
    /\ Commit(t, AddNode(Target(t), heap, nodeID, classType, inputs),
              Call("AddNode", t, <<nodeID, classType, inputs>>))
    /\ UNCHANGED nextID

CallRemoveNode(t, nodeID) ==
    /\ OnWorkflow(t)
    /\ Commit(t, RemoveNode(Target(t), heap, nodeID), Call("RemoveNode", t, <<nodeID>>))
    /\ UNCHANGED nextID

\* cl, err = wf.Clone()
CallClone ==
    /\ mode = ModeClone
    /\ Commit("cl", Clone(wf, heap), Call("Clone", "wf", <<>>))
    /\ UNCHANGED nextID

\* value, err = w.GetNodeInput(nodeID, inputName)
CallGetNodeInput(t, nodeID, inputName) ==
    /\ OnWorkflow(t)
    /\ lastOp' = [Call("GetNodeInput", t, <<nodeID, inputName>>)
                      EXCEPT !.err = GetNodeInput(Target(t), heap, nodeID, inputName).err,
                             !.ret = GetNodeInput(Target(t), heap, nodeID, inputName).val]
    /\ UNCHANGED <<wf, cl, heap, nextID, cloned, workflowFrame>>

\* ids = w.NodeIDs()
CallNodeIDs(t, order) ==
    /\ OnWorkflow(t)
    /\ lastOp' = [Call("NodeIDs", t, <<>>) EXCEPT !.ret = NodeIDs(Target(t), order)]
    /\ UNCHANGED <<wf, cl, heap, nextID, cloned, workflowFrame>>

\* node, ok = w.GetNode(nodeID)
CallGetNode(t, nodeID) ==
    /\ OnWorkflow(t)
    /\ lastOp' = [Call("GetNode", t, <<nodeID>>) EXCEPT !.ret = GetNode(Target(t), nodeID)]
    /\ UNCHANGED <<wf, cl, heap, nextID, cloned, workflowFrame>>

\* err = w.Validate()
CallValidate(t, order) ==
    /\ OnWorkflow(t)
    /\ lastOp' = [Call("Validate", t, <<>>) EXCEPT !.err = Validate(Target(t), order)]
    /\ UNCHANGED <<wf, cl, heap, nextID, cloned, workflowFrame>>

\* id = wb.AddNode(classType, inputs)
BuilderAddNode(classType, inputs) ==
    /\ mode = ModeWorkflow
    /\ nextID <= MaxBuilt
    /\ nextID' = WorkflowBuilderAddNode(wf, heap, nextID, classType, inputs).nextID
    /\ Commit("wf", WorkflowBuilderAddNode(wf, heap, nextID, classType, inputs),
              [Call("WorkflowBuilder.AddNode", "wf", <<classType, inputs>>)
                   EXCEPT !.ret = Str(WorkflowBuilderAddNode(wf, heap, nextID, classType, inputs).id)])

\* err = wb.ConnectNodes(sourceNodeID, sourceOutput, targetNodeID, targetInput)
CallConnectNodes(sourceNodeID, targetNodeID, targetInput) ==
    /\ OnWorkflow("wf")
    /\ Commit("wf", ConnectNodes(wf, heap, sourceNodeID, 0, targetNodeID, targetInput),
              Call("ConnectNodes", "wf", <<sourceNodeID, 0, targetNodeID, targetInput>>))
    /\ UNCHANGED nextID

NextWorkflow ==
    \/ \E t \in Targets, n \in IDs, k \in InputNames, v \in InputValues :
           CallSetNodeInput(t, n, k, v)
    \/ \E t \in Targets, n \in IDs, ct \in ClassTypes, inputs \in NewInputs \cup HeldMaps :
           CallAddNode(t, n, ct, inputs)
    \/ \E t \in Targets, n \in IDs : CallRemoveNode(t, n)
    \/ \E t \in Targets : \E order \in Orders(DOMAIN Target(t)) : CallValidate(t, order)
    \/ \E ct \in ClassTypes, inputs \in NewInputs \cup HeldMaps : BuilderAddNode(ct, inputs)
    \/ \E s \in SourceIDs, d \in IDs, k \in TargetInputs : CallConnectNodes(s, d, k)
    \/ \E t \in Targets, n \in IDs, k \in InputNames \cup TargetInputs :
           CallGetNodeInput(t, n, k)
    \/ \E t \in Targets : \E order \in Orders(DOMAIN Target(t)) : CallNodeIDs(t, order)
    \/ \E t \in Targets, n \in IDs : CallGetNode(t, n)

SpecWorkflow == InitWorkflow /\ [][NextWorkflow]_vars

NextClone ==
    \/ \E t \in Targets, n \in CloneIDs, k \in InputNames, v \in InputValues :
           CallSetNodeInput(t, n, k, v)
    \/ \E t \in Targets, n \in CloneIDs, ct \in ClassTypes, inputs \in NewInputs :
           CallAddNode(t, n, ct, inputs)
    \/ \E t \in Targets, n \in CloneIDs : CallRemoveNode(t, n)
    \/ \E s \in SourceIDs, d \in CloneIDs, k \in TargetInputs : CallConnectNodes(s, d, k)
    \/ CallClone

SpecClone == InitClone /\ [][NextClone]_vars

(***************************************************************************)
(* Properties of Clone (SpecClone) and of Validate (SpecWorkflow).         *)
(***************************************************************************)
\* C18: encoding a workflow and decoding it again gives a workflow equal
\* to it (node ids, class types, input names and input values, edge
\* references among them): the workflow Clone returns equals the original,
\* and so does the workflow the graph sub-decoder of the prompt array
\* reads back from the encoding.
C18_RoundTripYieldsEqualWorkflow ==
    lastOp.op = "Clone" =>
        /\ lastOp.err = "nil"
        /\ View(cl, heap) = View(wf, heap)
        /\ DecodeWorkflow(Payload(MarshalWorkflow(View(wf, heap)))) = View(wf, heap)

\* the two workflows are written as the same JSON
SameJSON(a, b) == MarshalWorkflow(a) = MarshalWorkflow(b)

\* the call made by this step, on the workflow t
StepOn(t) == lastOp'.op # "Clone" /\ lastOp'.target = t

Dangling(w, h) ==
    {<<id, k>> \in (DOMAIN w) \X (InputNames \cup TargetInputs) :
        /\ w[id].Inputs # NilRef
        /\ k \in DOMAIN h[w[id].Inputs]
        /\ Kind(h[w[id].Inputs][k]) = "array"
        /\ Payload(Payload(h[w[id].Inputs][k])[1]) \notin DOMAIN w}

\* C20: Validate returns an error exactly when the workflow has no node or
\* some node has an empty class type; references to nodes that are not in
\* the workflow do not matter.
C20_ValidateChecksOnlyClassTypes ==
    lastOp.op = "Validate" =>
        (lastOp.err # "nil"
            <=> (DOMAIN wf = {} \/ \E id \in DOMAIN wf : wf[id].ClassType = ""))

\* a workflow with a reference to a node it does not have was validated
C20_Witness ==
    /\ lastOp.op = "Validate" /\ lastOp.err = "nil"
    /\ Dangling(wf, heap) # {}

(***************************************************************************)
(* Properties of the calls on one workflow (SpecWorkflow).  lastOp' is the *)
(* call a step makes, wf and heap the workflow before it.                  *)
(***************************************************************************)
\* the content of the Inputs map of node id of wf (no keys for a nil map)
InputsOf(w, h, id) == IF w[id].Inputs = NilRef THEN EmptyMap ELSE h[w[id].Inputs]

\* node id of wf has an input called k
HasInput(id, k) == id \in DOMAIN wf /\ k \in DOMAIN InputsOf(wf, heap, id)

\* C21: SetNodeInput on a node id that is not in the workflow returns an
\* error and leaves the workflow as it was, creating no node; GetNodeInput
\* returns an error when the node id is absent and when the node has no
\* input of the requested name.
C21_MissingNodeOrInputIsAnError ==
    [][/\ (lastOp'.op = "SetNodeInput" /\ lastOp'.args[1] \notin DOMAIN wf) =>
              /\ lastOp'.err # "nil"
              /\ DOMAIN wf' = DOMAIN wf
              /\ View(wf', heap') = View(wf, heap)
       /\ (lastOp'.op = "GetNodeInput"
               /\ ~HasInput(lastOp'.args[1], lastOp'.args[2])) =>
              lastOp'.err # "nil"]_vars

\* SetNodeInput was refused on a workflow that has another node
C21_Witness ==
    /\ lastOp.op = "SetNodeInput" /\ lastOp.err # "nil"
    /\ lastOp.args[1] \notin DOMAIN wf
    /\ DOMAIN wf # {}


\* the inputs of node id other than the one called k
OtherInputs(w, h, id, k) ==
    [j \in DOMAIN InputsOf(w, h, id) \ {k} |-> InputsOf(w, h, id)[j]]

\* every node of w other than id is in (w2, h2) with the same class type
\* and the same inputs
OtherNodesSame(w, h, w2, h2, id) ==
    /\ DOMAIN w2 \ {id} = DOMAIN w \ {id}
    /\ \A m \in DOMAIN w \ {id} : View(w2, h2)[m] = View(w, h)[m]

\* C22: when SetNodeInput(n, k, v) returns no error, GetNodeInput(n, k)
\* returns v, every other input of node n is as it was, and every other
\* node of the workflow is as it was.
C22_SetNodeInputChangesOneInput ==
    [][(lastOp'.op = "SetNodeInput" /\ lastOp'.err = "nil") =>
          LET n == lastOp'.args[1]
              k == lastOp'.args[2]
              v == lastOp'.args[3]
          IN  /\ GetNodeInput(wf', heap', n, k) = [err |-> "nil", val |-> v]
              /\ OtherInputs(wf', heap', n, k) = OtherInputs(wf, heap, n, k)
              /\ wf'[n].ClassType = wf[n].ClassType
              /\ OtherNodesSame(wf, heap, wf', heap', n)]_vars


\* C23: the counter of a WorkflowBuilder starts at 1 and only its AddNode
\* moves it, by one per call, so the k-th call finds it at k; that call
\* returns k written in decimal and leaves the new node, with the class
\* type it was given, stored under exactly the id it returned, every other
\* node being as it was.
C23_BuilderNumbersNodesFromOne ==
    [][/\ nextID' # nextID =>
              lastOp'.op = "WorkflowBuilder.AddNode" /\ nextID' = nextID + 1
       /\ lastOp'.op = "WorkflowBuilder.AddNode" =>
              LET k == nextID
                  id == Itoa(k)
              IN  /\ lastOp'.ret = Str(id)
                  /\ DOMAIN wf' = DOMAIN wf \cup {id}
                  /\ wf'[id].ClassType = lastOp'.args[1]
                  /\ OtherNodesSame(wf, heap, wf', heap', id)]_vars

\* the second call has returned "2" and the first node is still under "1"
C23_Witness ==
    /\ lastOp.op = "WorkflowBuilder.AddNode"
    /\ lastOp.ret = Str("2")
    /\ nextID = 3
    /\ DOMAIN wf = {"1", "2"}


\* the edge reference ConnectNodes stores: the 2-element list [src, slot]
EdgeRef(sourceNodeID, sourceOutput) == Arr(<<Str(sourceNodeID), GoInt(sourceOutput)>>)

\* C24: ConnectNodes(src, slot, dst, k) on a dst that is in the graph
\* returns no error, sets input k of dst to the list [src, slot], and
\* leaves the other inputs of dst and every other node as they were; on a
\* dst that is not in the graph it returns an error and leaves the graph as
\* it was.
C24_ConnectNodesSetsOneInput ==
    [][lastOp'.op = "ConnectNodes" =>
          LET src == lastOp'.args[1]
              slot == lastOp'.args[2]
              dst == lastOp'.args[3]
              k == lastOp'.args[4]
          IN  IF dst \in DOMAIN wf
              THEN /\ lastOp'.err = "nil"
                   /\ GetNodeInput(wf', heap', dst, k) =
                          [err |-> "nil", val |-> EdgeRef(src, slot)]
                   /\ OtherInputs(wf', heap', dst, k) = OtherInputs(wf, heap, dst, k)
                   /\ wf'[dst].ClassType = wf[dst].ClassType
                   /\ OtherNodesSame(wf, heap, wf', heap', dst)
              ELSE /\ lastOp'.err # "nil"
                   /\ DOMAIN wf' = DOMAIN wf
                   /\ View(wf', heap') = View(wf, heap)]_vars


(***************************************************************************)
(* The typed accessors called on a message (SpecAccessors).  lastMsg is    *)
(* the message the caller holds, lastOp the call made on it: the accessor, *)
(* the message as it was handed in, and what came back.                    *)
(***************************************************************************)
ModeAccessors == "WebSocketMessage"

MessageTypes ==
    {MessageTypeStatus, MessageTypeExecuting, MessageTypeProgress, MessageTypeExecuted,
     MessageTypeError, MessageTypeCached}

\* payloads: complete ones, partial ones, and ones whose values have
\* another JSON type than the accessor asserts
AccessorData ==
    {<<>>,
     [prompt_id |-> Str("j1"), node |-> Str("n1")],
     [prompt_id |-> Str("j1"), node |-> Null],
     [prompt_id |-> Num(1), node |-> Num(1)],
     [prompt_id |-> Str("j1"), value |-> Num(1), max |-> Num(2)],
     [value |-> Str("1")],
     [prompt_id |-> Str("j1"), node |-> Str("n1"),
      output |-> Obj([images |-> Arr(<<>>)])],
     [node |-> Str("n1"), output |-> Str("none")],
     [prompt_id |-> Str("j1"), node_id |-> Str("n1"), node_type |-> Str("KSampler"),
      exception_type |-> Str("RuntimeError"), exception_message |-> Str("boom"),
      traceback |-> Arr(<<Str("line 1"), Str("line 2")>>)],
     [prompt_id |-> Str("j1"), node_id |-> Num(1),
      traceback |-> Arr(<<Str("line 1"), Num(2)>>)]}

AccessorMsgs == {Msg(type, data) : type \in MessageTypes, data \in AccessorData}

InitAccessors ==
    /\ mode = ModeAccessors
    /\ InitConn(FALSE)
    /\ wpc = [w \in Waiters |-> "idle"]
    /\ werr = [w \in Waiters |-> None]
    /\ ctx = [w \in Waiters |-> "active"]
    /\ result = None
    /\ now = 0
    /\ tracker = NewProgressTracker(Tracked, now)
    /\ InitLib
    /\ decoded = <<>>
    /\ taken = <<>>
    /\ badRead = 0
    /\ reported = 0
    /\ readFailed = FALSE
    /\ lostWith = {}
    /\ closers = {}
    /\ retVia = [w \in Waiters |-> None]
    /\ firstTerminal = [w \in Waiters |-> None]
    /\ termDelivered = {}
    /\ fetched = None
    /\ lastMsg \in AccessorMsgs
    /\ prev = None

\* an accessor reads msg.Type and msg.Data and assigns to neither
\* data, err := msg.GetExecutingData()
CallGetExecutingData ==
    /\ mode = ModeAccessors
    /\ lastOp' = [op |-> "GetExecutingData", msg |-> lastMsg, ret |-> GetExecutingData(lastMsg)]
    /\ UNCHANGED clientFrame

\* data, err := msg.GetProgressData()
CallGetProgressData ==
    /\ mode = ModeAccessors
    /\ lastOp' = [op |-> "GetProgressData", msg |-> lastMsg, ret |-> GetProgressData(lastMsg)]
    /\ UNCHANGED clientFrame

\* data, err := msg.GetExecutedData()
CallGetExecutedData ==
    /\ mode = ModeAccessors
    /\ lastOp' = [op |-> "GetExecutedData", msg |-> lastMsg, ret |-> GetExecutedData(lastMsg)]
    /\ UNCHANGED clientFrame

\* data, err := msg.GetErrorData()
CallGetErrorData ==
    /\ mode = ModeAccessors
    /\ lastOp' = [op |-> "GetErrorData", msg |-> lastMsg, ret |-> GetErrorData(lastMsg)]
    /\ UNCHANGED clientFrame

NextAccessors ==
    \/ CallGetExecutingData
    \/ CallGetProgressData
    \/ CallGetExecutedData
    \/ CallGetErrorData

SpecAccessors == InitAccessors /\ [][NextAccessors]_vars

\* the message type an accessor is for
KindOfAccessor(name) ==
    CASE name = "GetExecutingData" -> MessageTypeExecuting
      [] name = "GetProgressData" -> MessageTypeProgress
      [] name = "GetExecutedData" -> MessageTypeExecuted
      [] name = "GetErrorData" -> MessageTypeError

\* field k of a payload where the payload has it with JSON type kind, and
\* the field's zero value where it has not
FieldOr(data, k, kind, zero) ==
    IF k \in DOMAIN data /\ Kind(data[k]) = kind THEN Payload(data[k]) ELSE zero

\* the struct an accessor returns holds the payload's fields
HoldsFields(name, data, r) ==
    CASE name = "GetExecutingData" ->
            /\ r.PromptID = FieldOr(data, "prompt_id", "string", "")
            /\ r.Node = IF IsString(data, "node") THEN PtrTo(Payload(data["node"]))
                        ELSE NilNode
      [] name = "GetProgressData" ->
            /\ r.Value = FieldOr(data, "value", "number", 0)
            /\ r.Max = FieldOr(data, "max", "number", 0)
      [] name = "GetExecutedData" ->
            /\ r.PromptID = FieldOr(data, "prompt_id", "string", "")
            /\ r.Node = FieldOr(data, "node", "string", "")
            /\ r.Output = FieldOr(data, "output", "object", NilOutput)
      [] name = "GetErrorData" ->
            /\ r.PromptID = FieldOr(data, "prompt_id", "string", "")
            /\ r.NodeID = FieldOr(data, "node_id", "string", "")
            /\ r.NodeType = FieldOr(data, "node_type", "string", "")
            /\ r.ExceptionType = FieldOr(data, "exception_type", "string", "")
            /\ r.ExceptionMessage = FieldOr(data, "exception_message", "string", "")
            /\ LET tb == FieldOr(data, "traceback", "array", <<>>)
               IN  (\A i \in DOMAIN tb : Kind(tb[i]) = "string") =>
                       r.Traceback = [i \in DOMAIN tb |-> Payload(tb[i])]

\* C25: a typed accessor returns an error exactly when the type of the
\* message is not the one the accessor is for; otherwise it returns a
\* struct holding the fields of the payload (a field the payload lacks, or
\* holds with another JSON type, is left at its zero value); the message is
\* the same after the call as before it.
C25_AccessorFailsExactlyOnOtherKind ==
    lastOp.op \in {"GetExecutingData", "GetProgressData", "GetExecutedData", "GetErrorData"} =>
        /\ (lastOp.ret.err # "nil") <=> (lastOp.msg.Type # KindOfAccessor(lastOp.op))
        /\ lastOp.ret.err = "nil" => HoldsFields(lastOp.op, lastOp.msg.Data, lastOp.ret)
        /\ lastMsg = lastOp.msg

\* GetProgressData has returned the fields of a progress message whose
\* payload lacks "max"
C25_Witness ==
    /\ lastOp.op = "GetProgressData"
    /\ lastOp.msg.Type = MessageTypeProgress
    /\ "max" \notin DOMAIN lastOp.msg.Data
    /\ lastOp.ret.err = "nil"


(***************************************************************************)
(* Further properties of the progress tracker (SpecTracker).               *)
(***************************************************************************)
\* the last message handled is an executed event of the tracked job
IsExecutedEvent ==
    /\ lastMsg.Type = MessageTypeExecuted
    /\ JobOf(lastMsg) = Tracked

\* C26: handling an executed event of the tracked job increases the
\* completed-node count by exactly one and leaves every other field of the
\* tracker (current node, step counters, completed flag, error flag and
\* message, times) as it was.
C26_ExecutedEventCountsOneNode ==
    IsExecutedEvent =>
        /\ tracker.CompletedNodes = prev.CompletedNodes + 1
        /\ tracker.CurrentNode = prev.CurrentNode
        /\ tracker.CurrentStep = prev.CurrentStep
        /\ tracker.TotalSteps = prev.TotalSteps
        /\ tracker.TotalNodes = prev.TotalNodes
        /\ tracker.IsCompleted = prev.IsCompleted
        /\ tracker.HasError = prev.HasError
        /\ tracker.ErrorMessage = prev.ErrorMessage
        /\ tracker.PromptID = prev.PromptID
        /\ tracker.StartTime = prev.StartTime
        /\ tracker.LastUpdate = prev.LastUpdate

\* an executed event was handled by a tracker that had a node and steps
C26_Witness ==
    /\ IsExecutedEvent
    /\ prev.CurrentNode # "" /\ prev.CurrentStep > 0 /\ prev.TotalSteps > 0
    /\ tracker.CompletedNodes = 2


\* C27: handling the completion event of the tracked job makes the tracker
\* Completed and leaves the step counters, and so the percentage, as the
\* last progress event set them; after progress (value 10, max 20) the
\* percentage of the Completed tracker is 50.
C27_CompletionKeepsStepCounters ==
    IsCompletionEvent(lastMsg) =>
        /\ Completed(tracker)
        /\ tracker.CurrentStep = prev.CurrentStep
        /\ tracker.TotalSteps = prev.TotalSteps
        /\ GetProgressPercentage(tracker) = GetProgressPercentage(prev)
        /\ (prev.CurrentStep = 10 /\ prev.TotalSteps = 20) =>
               GetProgressPercentage(tracker).num = 50 * GetProgressPercentage(tracker).den

\* the scenario: progress 10 of 20, then the completion event
C27_Witness ==
    /\ IsCompletionEvent(lastMsg)
    /\ prev.CurrentStep = 10 /\ prev.TotalSteps = 20
    /\ ~prev.IsCompleted /\ ~prev.HasError
    /\ Completed(tracker)


\* C28: PrintProgress computes the ETA only for a tracker whose percentage
\* is greater than 0, so the divisor percentage / 100 of the ETA is never
\* zero.
C28_ETAOnlyWithPositivePercentage ==
    (lastOp.op = "PrintProgress" /\ lastOp.eta) =>
        /\ Positive(GetProgressPercentage(tracker))
        /\ lastOp.divisor.num # 0
        /\ lastOp.divisor.den # 0

\* an ETA was computed, and time had passed since the tracker was made
C28_Witness ==
    /\ lastOp.op = "PrintProgress" /\ lastOp.eta
    /\ lastOp.elapsed > 0
    /\ tracker.CurrentStep < tracker.TotalSteps


\* the ids for which GetNode reports a node of w as found
Found(w) == {id \in IDs : GetNode(w, id).ok}

\* C29: NodeIDs returns exactly the ids for which GetNode reports found,
\* each of them once, whatever AddNode, RemoveNode and SetNodeInput calls
\* came before; after AddNode(id, t, inputs) GetNode(id) reports found with
\* class type t, and after RemoveNode(id) it reports not found.
C29_NodeIDsAreTheFoundNodes ==
    [][/\ lastOp'.op = "NodeIDs" =>
              /\ {lastOp'.ret[i] : i \in DOMAIN lastOp'.ret} = Found(wf')
              /\ \A i, j \in DOMAIN lastOp'.ret : i # j => lastOp'.ret[i] # lastOp'.ret[j]
       /\ lastOp'.op = "GetNode" =>
              /\ lastOp'.ret = GetNode(wf', lastOp'.args[1])
              /\ lastOp'.ret.ok <=> lastOp'.args[1] \in DOMAIN wf'
       /\ lastOp'.op = "AddNode" =>
              /\ GetNode(wf', lastOp'.args[1]).ok
              /\ GetNode(wf', lastOp'.args[1]).node.ClassType = lastOp'.args[2]
       /\ lastOp'.op = "RemoveNode" => ~GetNode(wf', lastOp'.args[1]).ok]_vars

\* NodeIDs has returned the two ids of a workflow
C29_Witness ==
    /\ lastOp.op = "NodeIDs"
    /\ Len(lastOp.ret) = 2
    /\ \E id \in DOMAIN wf : wf[id].ClassType = ""


(***************************************************************************)
(* Client.WaitForCompletion against a server that runs the queued jobs     *)
(* (SpecBatch).  The server emits the completion event of a job once, when *)
(* the job ends, to the event streams open at that moment; a stream opened *)
(* later does not carry it.  The call waits for j1 on the stream it dials; *)
(* j2 is another job of the same batch.                                    *)
(***************************************************************************)
\* the stream the call dialled is open at the server
StreamOpen == rpc # "unborn" /\ connOpen /\ ~readFailed

InitBatch ==
    /\ Init
    /\ mode = ModeWFC

\* a job ends: the server emits its completion event
ServerEmits(j) ==
    /\ mode = ModeWFC
    /\ emitted[j] = "no"
    /\ emitted' = [emitted EXCEPT ![j] = IF StreamOpen THEN "sent" ELSE "unheard"]
    /\ UNCHANGED <<mode, connVars, waitVars, tracker, now, decoded, taken, badRead, reported,
                   readFailed, lostWith, closers, retVia, firstTerminal, termDelivered,
                   fetched, lastMsg, prev, lastOp, wf, cl, heap, nextID, own, cloned,
                   closing, retry>>

\* ws.conn.ReadMessage() returns the completion event of j, which the
\* server sent on this stream and which was not read yet
ReadEmitted(j) ==
    /\ emitted[j] = "sent"
    /\ \A i \in DOMAIN decoded : decoded[i] # ExecutingNull(j)
    /\ ReadFrame(ExecutingNull(j))

\* ws.conn.ReadMessage() returns the start of a node of j, while j runs
ReadRunning(j) ==
    /\ emitted[j] = "no"
    /\ ReadFrame(ExecutingNode(j, "n1"))

NextBatch ==
    \/ \E j \in Jobs : ServerEmits(j)
    \/ \E j \in Jobs : ReadEmitted(j)
    \/ \E j \in Jobs : ReadRunning(j)
    \/ ReaderSeesDone
    \/ ReaderEntersRead
    \/ ReadFails
    \/ SendReadError
    \/ SendMessage
    \/ DeferCloseErrors
    \/ DeferCloseMessages
    \/ \E w \in Waiters, how \in {"canceled", "deadline"} : CtxEnds(w, how)
    \/ \E w \in Waiters : Dial(w)
    \/ \E w \in Waiters : DialFails(w)
    \/ \E w \in Waiters : WaitForCompletion(w)

SpecBatch == InitBatch /\ [][NextBatch]_vars

\* the call w waits, its context is active, the reader is blocked in
\* ReadMessage and nothing is buffered, and the completion event of its job
\* was emitted before its stream was open: only the end of the context or
\* of the connection can end the call
LeftWaiting(w) ==
    /\ wpc[w] = "waiting" /\ ctx[w] = "active"
    /\ rpc = "read" /\ messages = <<>> /\ errors = <<>>
    /\ emitted[JobOfWaiter(w)] = "unheard"

\* a completion event that no stream of the call carried is never received:
\* the call does not return through it
UnheardCompletionIsNeverReceived ==
    \A w \in Waiters :
        emitted[JobOfWaiter(w)] = "unheard" => retVia[w] # "completion"

\* C30: a WaitForCompletion call is never left waiting for a completion
\* event that was emitted before the call opened its event stream; it
\* returns the job's result without the context having to end.
C30_EarlyCompletionDoesNotBlock ==
    \A w \in Waiters : ~LeftWaiting(w)


(***************************************************************************)
(* Further properties of the wait operations and of the reader (Spec).     *)
(***************************************************************************)
\* C31: a WaitForPromptCompletion call that returned nil returned on
\* receiving the completion event of its prompt id; a call that returned in
\* any other way (context ended, error received, stream closed, execution
\* error) returned a non-nil error.
C31_NilOnlyOnCompletion ==
    \A w \in Waiters :
        (mode = ModeWPC /\ wpc[w] = "returned") =>
            (werr[w] = "nil" <=> retVia[w] = "completion")


\* the reader of the stream call w dialled is blocked on
\* ws.errors <- "unmarshal error": the buffer is full, done is open, and
\* the call, which receives only from Messages(), waits with its context
\* active; no frame is read any more
ReaderStuckOnError(w) ==
    /\ mode = ModeWFC /\ wpc[w] = "waiting" /\ ctx[w] = "active"
    /\ rpc = "sendUnmarshalError" /\ Len(errors) = ErrCap /\ ~done
    /\ ~ENABLED SendUnmarshalError

\* C32: however many undecodable frames the stream delivers, the reader of
\* a waiting WaitForCompletion call whose context is active goes on reading,
\* so the completion event the server sends later reaches the call and the
\* call returns.
C32_UndecodableFramesDoNotStopTheWait ==
    \A w \in Waiters : ~ReaderStuckOnError(w)


\* C33: a WaitForCompletion call that returned a nil error fetched a
\* history that has an entry for its job id; a history without such an
\* entry is not reported as success with empty outputs.
C33_SuccessNeedsHistoryEntry ==
    \A w \in Waiters :
        (mode = ModeWFC /\ wpc[w] = "returned" /\ werr[w] = "nil") =>
            JobOfWaiter(w) \in DOMAIN fetched.history


(***************************************************************************)
(* A WebSocketClient shared by the application and its                     *)
(* WaitForPromptCompletion calls, which the application closes             *)
(* (SpecShared).  FairShared adds what the Go scheduler guarantees: a      *)
(* goroutine that can take its next step takes it.  A read on the open     *)
(* connection may block for ever; a read on the closed connection fails.   *)
(***************************************************************************)
InitShared ==
    /\ Init
    /\ mode = ModeWPC

NextShared ==
    \/ ReaderSeesDone
    \/ ReaderEntersRead
    \/ \E f \in ConnFrames : ReadFrame(f)
    \/ ReadFails
    \/ SendReadError
    \/ SendUnmarshalError
    \/ SendMessage
    \/ DeferCloseErrors
    \/ DeferCloseMessages
    \/ UserClose
    \/ \E w \in Waiters, how \in {"canceled", "deadline"} : CtxEnds(w, how)
    \/ \E w \in Waiters : CallWaitForPromptCompletion(w)
    \/ \E w \in Waiters : WaitForPromptCompletion(w)

SpecShared == InitShared /\ [][NextShared]_vars

FairShared ==
    /\ SpecShared
    /\ WF_vars(ReaderSeesDone)
    /\ WF_vars(ReaderEntersRead)
    /\ WF_vars(ReadFails /\ ~connOpen)
    /\ WF_vars(SendReadError)
    /\ WF_vars(SendUnmarshalError)
    /\ WF_vars(SendMessage)
    /\ WF_vars(DeferCloseErrors)
    /\ WF_vars(DeferCloseMessages)
    /\ \A w \in Waiters : WF_vars(WaitForPromptCompletion(w))

\* the reader has returned and its deferred calls have run
ReaderExited == rpc = "exited"

\* C34: once Close has been called the read loop terminates; it closes the
\* errors channel and the messages channel when it terminates, each once
\* and neither before; nothing is sent on a channel after it was closed;
\* and every call blocked on the messages channel then returns.
C34_CloseEndsReaderAndReleasesConsumers ==
    /\ done ~> ReaderExited
    /\ [](errClosed <=> rpc \in {"deferMessages", "exited"})
    /\ [](msgClosed <=> ReaderExited)
    /\ [][/\ errClosed => (errClosed' /\ Len(errors') <= Len(errors))
          /\ msgClosed => (msgClosed' /\ Len(messages') <= Len(messages))]_vars
    /\ \A w \in Waiters : (done /\ wpc[w] = "waiting") ~> wpc[w] = "returned"

\* the reader was blocked with a message for the full buffer when Close
\* was called, has terminated, and has released a waiting call
C34_Witness ==
    /\ "user" \in closers /\ ReaderExited
    /\ msgClosed /\ errClosed
    /\ \E w \in Waiters : retVia[w] = "messages closed"
    /\ Len(messages) = 0 /\ Len(decoded) > Len(taken)


(***************************************************************************)
(* WebSocketClient.Close, step by step, called by several goroutines while *)
(* readLoop runs (SpecClose).  once.Do reads its flag, takes its mutex,    *)
(* reads the flag again, runs the function and sets the flag when the      *)
(* function has returned.                                                  *)
(***************************************************************************)
ModeClose == "WebSocketClient.Close"

InitClose ==
    /\ mode = ModeClose
    /\ InitConn(TRUE)
    /\ wpc = [w \in Waiters |-> "idle"]
    /\ werr = [w \in Waiters |-> None]
    /\ ctx = [w \in Waiters |-> "active"]
    /\ result = None
    /\ tracker = None
    /\ now = 0
    /\ InitHist

closeFrame == <<mode, rpc, inHand, messages, errors, msgClosed, errClosed, nread, waitVars,
                tracker, now, decoded, taken, badRead, reported, readFailed, lostWith, retVia,
                firstTerminal, termDelivered, fetched, lastMsg, prev, lastOp, wf, cl, heap,
                nextID, own, cloned, emitted, retry>>

\* a caller is inside the function once.Do runs, holding the mutex of the Once
InOnce(c) == closing.pc[c] \in {"closeDone", "closeConn"}

\* a goroutine calls ws.Close()
CallClose(c) ==
    /\ mode = ModeClose
    /\ closing.pc[c] = "idle"
    /\ closing' = [closing EXCEPT !.pc[c] = "once"]
    /\ closers' = closers \cup {c}
    /\ UNCHANGED <<once, done, connOpen, closeFrame>>

\* ws.once.Do(...), for every caller but the one that runs the function: the
\* flag is set, Do returns, and Close returns its nil err
CloseOnceTaken(c) ==
    /\ closing.pc[c] = "once"
    /\ once
    /\ closing' = [closing EXCEPT !.pc[c] = "returned", !.ret[c] = "nil"]
    /\ UNCHANGED <<once, done, connOpen, closers, closeFrame>>

\* a Do that takes no mutex and does not look at the flag
CloseOnceEnterUnguarded(c) ==
    /\ closing.pc[c] = "once"
    /\ closing' = [closing EXCEPT !.pc[c] = "closeDone"]
    /\ UNCHANGED <<once, done, connOpen, closers, closeFrame>>

\* ws.once.Do(...), for the caller that finds the flag clear and the mutex
\* free: it runs the function
CloseOnceEnter(c) ==
    /\ closing.pc[c] = "once"
    /\ ~once
    /\ \A d \in Closers : ~InOnce(d)
    /\ closing' = [closing EXCEPT !.pc[c] = "closeDone"]
    /\ UNCHANGED <<once, done, connOpen, closers, closeFrame>>

\* close(ws.done); closing a closed channel panics
CloseDone(c) ==
    /\ closing.pc[c] = "closeDone"
    /\ IF done
       THEN /\ closing' = [closing EXCEPT !.pc[c] = "panicked", !.panicked = TRUE]
            /\ UNCHANGED done
       ELSE /\ closing' = [closing EXCEPT !.pc[c] = "closeConn",
                                          !.doneCloses = closing.doneCloses + 1]
            /\ done' = TRUE
    /\ UNCHANGED <<once, connOpen, closers, closeFrame>>

\* err = ws.conn.Close(); the function returns, Do sets the flag and
\* releases the mutex; return err
CloseConn(c, err) ==
    /\ closing.pc[c] = "closeConn"
    /\ connOpen' = FALSE
    /\ once' = TRUE
    /\ closing' = [closing EXCEPT !.pc[c] = "returned", !.ret[c] = err, !.first = c,
                                  !.connCloses = closing.connCloses + 1]
    /\ UNCHANGED <<done, closers, closeFrame>>

\* what conn.Close() returns
CloseErrors == {"nil", "close error"}

NextClose ==
    \/ \E c \in Closers : CallClose(c)
    \/ \E c \in Closers : CloseOnceTaken(c)
    \/ \E c \in Closers : CloseOnceEnter(c)
    \/ \E c \in Closers : CloseDone(c)
    \/ \E c \in Closers, err \in CloseErrors : CloseConn(c, err)
    \/ ReaderSeesDone
    \/ ReaderEntersRead
    \/ \E f \in ConnFrames : ReadFrame(f)
    \/ ReadFails
    \/ SendReadError
    \/ SendUnmarshalError
    \/ SendMessage
    \/ DeferCloseErrors
    \/ DeferCloseMessages

SpecClose == InitClose /\ [][NextClose]_vars

\* the callers whose Close has returned
ClosedCallers == {c \in Closers : closing.pc[c] = "returned"}

\* C35: however many goroutines call Close, and whatever the reader is
\* doing, the done channel and the connection are closed at most once each,
\* and exactly once as soon as one call has returned; no call panics; and
\* every call but the one that closed them returns nil.
C35_CloseClosesOnce ==
    /\ ~closing.panicked
    /\ closing.doneCloses <= 1 /\ closing.connCloses <= 1
    /\ (closing.doneCloses = 1) = done
    /\ ClosedCallers # {} => (closing.doneCloses = 1 /\ closing.connCloses = 1 /\ ~connOpen)
    /\ \A c \in ClosedCallers : c # closing.first => closing.ret[c] = "nil"

\* three calls have returned while the reader was running: one closed the
\* connection and got its error, the others returned nil, the reader left
C35_Witness ==
    /\ ClosedCallers = Closers
    /\ closing.ret[closing.first] = "close error"
    /\ closing.doneCloses = 1 /\ closing.connCloses = 1
    /\ \A c \in Closers \ {closing.first} : closing.ret[c] = "nil"
    /\ rpc = "exited" /\ nread > 0


(***************************************************************************)
(* A WorkflowBuilder used through AddNode and AddNodeWithID only           *)
(* (SpecBuilder).                                                          *)
(***************************************************************************)
\* WorkflowBuilder.AddNodeWithID: the node is stored under the caller's id;
\* the counter is not read and not changed
AddNodeWithID(w, h, next, id, classType, inputs) ==
    [nextID |-> next, err |-> "nil",
     w |-> Put(w, id, [ClassType |-> classType, Inputs |-> RefOfArg(h, inputs)]),
     heap |-> HeapWithArg(h, inputs)]

\* wb.AddNodeWithID(id, classType, inputs)
CallAddNodeWithID(id, classType, inputs) ==
    /\ mode = ModeWorkflow
    /\ nextID' = AddNodeWithID(wf, heap, nextID, id, classType, inputs).nextID
    /\ Commit("wf", AddNodeWithID(wf, heap, nextID, id, classType, inputs),
              Call("WorkflowBuilder.AddNodeWithID", "wf", <<id, classType, inputs>>))

NextBuilder ==
    \/ \E ct \in ClassTypes, inputs \in NewInputs \cup HeldMaps : BuilderAddNode(ct, inputs)
    \/ \E id \in IDs, ct \in ClassTypes, inputs \in NewInputs \cup HeldMaps :
           CallAddNodeWithID(id, ct, inputs)

SpecBuilder == InitWorkflow /\ [][NextBuilder]_vars

\* C36: the id a WorkflowBuilder.AddNode call returns was not a key of the
\* builder's graph before the call, whatever AddNode and AddNodeWithID
\* calls were made on the builder before.
C36_AddNodeNeverReplaces ==
    [][(nextID' # nextID /\ lastOp'.op = "WorkflowBuilder.AddNode") =>
           lastOp'.ret[2] \notin DOMAIN wf]_vars


(***************************************************************************)
(* retryWithBackoff of the error-handling example (SpecRetry).  The        *)
(* function it calls succeeds or fails as it likes; the context may be     *)
(* cancelled at any moment; the timer of a wait may fire as soon as it     *)
(* exists.  A select that finds no case ready parks the goroutine, and the *)
(* first case to become ready wakes it; a select that finds both ready     *)
(* takes either.                                                           *)
(***************************************************************************)
ModeRetry == "retryWithBackoff"
MaxTries == 3
\* the arguments of the calls
RetryCounts == -1 .. MaxTries
InitialDelays == {0, 1}

InitRetry ==
    /\ mode = ModeRetry
    /\ InitConn(FALSE)
    /\ wpc = [w \in Waiters |-> "idle"]
    /\ werr = [w \in Waiters |-> None]
    /\ ctx = [w \in Waiters |-> "active"]
    /\ result = None
    /\ tracker = None
    /\ now = 0
    /\ InitHist

retryFrame == <<mode, connVars, waitVars, tracker, now, decoded, taken, badRead, reported,
                readFailed, lostWith, closers, retVia, firstTerminal, termDelivered, fetched,
                lastMsg, prev, lastOp, wf, cl, heap, nextID, own, cloned, emitted, closing>>

\* the values of the run: the result or the error of the n-th call of fn,
\* nil, an error of the context
RetryValue(kind, n) == [kind |-> kind, n |-> n]
RetryNil == RetryValue("nil", 0)
\* fmt.Errorf("max retries exceeded: %w", lastErr)
MaxRetriesExceeded(lastErr) == RetryValue("max retries exceeded: " \o lastErr.kind, lastErr.n)

\* retryWithBackoff(ctx, fn, maxRetries, initialDelay): var lastErr error;
\* delay := initialDelay; i := 0
CallRetryWithBackoff(maxRetries, initialDelay) ==
    /\ mode = ModeRetry
    /\ retry.pc = "<none>"
    /\ retry' = [pc |-> "loop", maxRetries |-> maxRetries, initialDelay |-> initialDelay,
                 i |-> 0, delay |-> initialDelay, lastErr |-> RetryNil, ctx |-> "active",
                 timer |-> FALSE, woken |-> None,
                 ret |-> [result |-> RetryValue(None, 0), err |-> RetryValue(None, 0)],
                 log |-> <<>>, waits |-> <<>>, cancelledAt |-> -1]
    /\ UNCHANGED retryFrame

\* the caller's context is cancelled or reaches its deadline; a goroutine
\* parked in the select is woken by the ctx.Done() case
RetryCtxEnds(how) ==
    /\ retry.pc \in {"loop", "select", "parked"}
    /\ retry.ctx = "active"
    /\ retry' = [retry EXCEPT !.ctx = how,
                              !.woken = IF retry.pc = "parked" /\ retry.woken = None
                                        THEN "ctx" ELSE @,
                              !.cancelledAt = IF retry.pc = "parked" /\ retry.woken = None
                                              THEN Len(retry.log) ELSE @]
    /\ UNCHANGED retryFrame

\* result, err := fn(); if err == nil { return result, nil }; lastErr = err;
\* if i < maxRetries-1 the wait begins (time.After(delay) starts its
\* timer), else i++
RetryAttempt(ok) ==
    /\ retry.pc = "loop"
    /\ retry.i < retry.maxRetries
    /\ LET k == Len(retry.log) + 1
       IN  IF ok
           THEN retry' = [retry EXCEPT !.pc = "returned", !.log = Append(@, "ok"),
                                       !.ret = [result |-> RetryValue("result", k), err |-> RetryNil]]
           ELSE retry' = [retry EXCEPT !.log = Append(@, "failed"),
                                       !.lastErr = RetryValue("failure", k),
                                       !.pc = IF retry.i < retry.maxRetries - 1
                                              THEN "select" ELSE "loop",
                                       !.timer = FALSE,
                                       !.i = IF retry.i < retry.maxRetries - 1
                                             THEN @ ELSE @ + 1]
    /\ UNCHANGED retryFrame

\* the timer of time.After(delay) fires; a goroutine parked in the select
\* is woken by the timer case
RetryTimerFires ==
    /\ retry.pc \in {"select", "parked"}
    /\ ~retry.timer
    /\ retry.woken = None
    /\ retry' = [retry EXCEPT !.timer = TRUE,
                              !.woken = IF retry.pc = "parked" THEN "timer" ELSE @]
    /\ UNCHANGED retryFrame

\* case <-time.After(delay), with a delay that stays as it is
RetrySelectTimerConstant ==
    /\ \/ retry.pc = "select" /\ retry.timer
       \/ retry.pc = "parked" /\ retry.woken = "timer"
    /\ retry' = [retry EXCEPT !.pc = "loop", !.woken = None,
                              !.waits = Append(@, retry.delay),
                              !.i = @ + 1]
    /\ UNCHANGED retryFrame

\* case <-time.After(delay): delay *= 2; then i++
RetrySelectTimer ==
    /\ \/ retry.pc = "select" /\ retry.timer
       \/ retry.pc = "parked" /\ retry.woken = "timer"
    /\ retry' = [retry EXCEPT !.pc = "loop", !.woken = None,
                              !.waits = Append(@, retry.delay),
                              !.delay = 2 * @,
                              !.i = @ + 1]
    /\ UNCHANGED retryFrame

\* case <-ctx.Done(): return nil, ctx.Err()
RetrySelectCtx ==
    /\ \/ retry.pc = "select" /\ retry.ctx # "active"
       \/ retry.pc = "parked" /\ retry.woken = "ctx"
    /\ retry' = [retry EXCEPT !.pc = "returned", !.woken = None,
                              !.ret = [result |-> RetryNil, err |-> RetryValue(CtxErr(retry.ctx), 0)]]
    /\ UNCHANGED retryFrame

\* the select finds no case ready and blocks
RetrySelectParks ==
    /\ retry.pc = "select"
    /\ ~retry.timer /\ retry.ctx = "active"
    /\ retry' = [retry EXCEPT !.pc = "parked"]
    /\ UNCHANGED retryFrame

\* the loop ends: return nil, fmt.Errorf("max retries exceeded: %w", lastErr)
RetryGivesUp ==
    /\ retry.pc = "loop"
    /\ retry.i >= retry.maxRetries
    /\ retry' = [retry EXCEPT !.pc = "returned",
                              !.ret = [result |-> RetryNil,
                                       err |-> MaxRetriesExceeded(retry.lastErr)]]
    /\ UNCHANGED retryFrame

NextRetry ==
    \/ \E n \in RetryCounts, d \in InitialDelays : CallRetryWithBackoff(n, d)
    \/ \E how \in {"canceled", "deadline"} : RetryCtxEnds(how)
    \/ \E ok \in BOOLEAN : RetryAttempt(ok)
    \/ RetryTimerFires
    \/ RetrySelectTimer
    \/ RetrySelectCtx
    \/ RetrySelectParks
    \/ RetryGivesUp

SpecRetry == InitRetry /\ [][NextRetry]_vars

RetryCalled == retry.pc # "<none>"
RECURSIVE Pow2(_)
Pow2(n) == IF n <= 0 THEN 1 ELSE 2 * Pow2(n - 1)
\* the failure of the last call made, nil when none was made
LastFailure == IF retry.log = <<>> THEN RetryNil ELSE RetryValue("failure", Len(retry.log))

\* C37: retryWithBackoff calls the function at most maxRetries times, never
\* after a call succeeded and never after the context was cancelled while
\* it waited; the k-th wait lasts initialDelay doubled k-1 times and every
\* call but the first follows a wait; it returns the result of the
\* successful call, or the context's error from a wait, or else, with all
\* maxRetries calls made and failed, an error wrapping the last failure.
C37_RetryWithBackoff ==
    RetryCalled =>
        /\ Len(retry.log) <= retry.maxRetries \/ retry.log = <<>>
        /\ \A k \in 1 .. Len(retry.log) - 1 : retry.log[k] = "failed"
        /\ retry.cancelledAt >= 0 => Len(retry.log) = retry.cancelledAt
        /\ Len(retry.log) <= Len(retry.waits) + 1
        /\ \A k \in DOMAIN retry.waits : retry.waits[k] = retry.initialDelay * Pow2(k - 1)
        /\ retry.pc = "returned" =>
              \/ /\ retry.log # <<>> /\ retry.log[Len(retry.log)] = "ok"
                 /\ retry.ret = [result |-> RetryValue("result", Len(retry.log)), err |-> RetryNil]
              \/ /\ retry.ctx # "active"
                 /\ retry.log # <<>> /\ retry.log[Len(retry.log)] = "failed"
                 /\ Len(retry.log) < retry.maxRetries
                 /\ retry.ret = [result |-> RetryNil, err |-> RetryValue(CtxErr(retry.ctx), 0)]
              \/ /\ retry.cancelledAt < 0
                 /\ \A k \in DOMAIN retry.log : retry.log[k] = "failed"
                 /\ Len(retry.log) = (IF retry.maxRetries > 0 THEN retry.maxRetries ELSE 0)
                 /\ retry.ret = [result |-> RetryNil, err |-> MaxRetriesExceeded(LastFailure)]
        /\ (retry.pc = "returned" /\ retry.cancelledAt >= 0) =>
              retry.ret = [result |-> RetryNil, err |-> RetryValue(CtxErr(retry.ctx), 0)]

\* two failed calls, waits of 1 and 2, then the third call succeeds
C37_Witness ==
    /\ RetryCalled /\ retry.pc = "returned"
    /\ retry.maxRetries = 3 /\ retry.initialDelay = 1
    /\ retry.log = <<"failed", "failed", "ok">>
    /\ retry.waits = <<1, 2>>
    /\ retry.ret = [result |-> RetryValue("result", 3), err |-> RetryNil]

====
